---- MODULE Spec2Model ----
(***************************************************************************)
(* Model of the LLM provider failover pool (src/provider/pool.rs): the key *)
(* rotator KeyPool, ProviderPool::new, ProviderPool::chat,                 *)
(* ProviderPool::chat_with_provider.  One call of the pool is followed     *)
(* step by step; the other agent runs that use the pool at the same time   *)
(* appear through the one thing they share with it, the rotation cursors.  *)
(* A key rotator on its own (KeyPool::new, KeyPool::next_key) is modelled  *)
(* next to the pool, with any key list, the empty one included.            *)
(* The agent turn loop (src/agent/loop_runner.rs, AgentLoop::run) is       *)
(* modelled as one run that suspends at its model calls and its tool calls *)
(* while the cancellation flag may be set by another thread; a string is a *)
(* sequence of pieces, so that format! is the concatenation of sequences.  *)
(***************************************************************************)
EXTENDS Integers, Sequences, FiniteSets, TLC

\* ---------------------------------------------------------------- bounds
\* keys configured for one backend: 0..MaxKeys
MaxKeys == 3
\* keys configured over all backends together
MaxTotalKeys == 3
\* width of the rotation cursor (AtomicUsize), scaled down: values 0..2^CursorBits-1
CursorBits == 2
\* distinct response payloads an adapter can produce
NumResponses == 2

\* turns a run may be allowed: max_turns is 0..MaxTurns
MaxTurns == 3
\* tool calls in one response of the model: 0..MaxBatch
MaxBatch == 2
\* tool calls the model asks for during one run, all turns together
MaxToolCalls == 3
\* distinct texts the model can answer with
NumTexts == 1
\* messages of earlier sessions handed to a run: 0..MaxHistory
MaxHistory == 1
\* the same, for the runs followed for what they take from their history
MaxLongHistory == 2
\* the turn budgets of those runs: 0..MaxShortTurns
MaxShortTurns == 2

\* ------------------------------------------------------------- constants
Responses == 1..NumResponses

\* the four backends, in the order ProviderPool::new pushes them
Backends == <<"claude", "gemini", "groq", "mistral">>

\* names a caller or the configuration may give: the backends and one that matches none
ProviderNames == {"claude", "gemini", "groq", "mistral", "other"}

\* kinds of result of one adapter call (Result<LlmResponse, ProviderError>); the pool
\* tells RateLimited and AuthError from the rest, for which RequestError stands
ErrorKinds == {"RateLimited", "AuthError", "RequestError"}
ReplyKinds == {"Ok"} \cup ErrorKinds

\* message of the terminal error of chat
AllProvidersFailed == "All providers failed"

\* credentials a key list may hold
KeyStrings == {"k1", "k2", "k3"}

VARIABLES
    providers,    \* ProviderPool.providers: Seq of [name, keys], keys = KeyPool.keys.len()
    default_idx,  \* ProviderPool.default_idx, as a position 1..Len(providers)
    index,        \* KeyPool.index of each entry: the shared rotation cursors
    adapter,      \* environment: the replies each credential of each entry may get
    seen,         \* history: the cursor values the last next_key calls on each entry fetched
    pc,           \* the call followed: "idle", "await" (adapter call in flight), "done"
    op,           \* the entry point called and its provider_name argument
    cur,          \* the attempt in flight
    log,          \* history: the adapter calls of this call so far, with their replies
    result,       \* what the call returned
    config,       \* history: the arguments ProviderPool::new was called with
    kp_keys,      \* a KeyPool on its own: KeyPool.keys
    kp_index,     \* a KeyPool on its own: KeyPool.index
    kp_ret,       \* a KeyPool on its own: what the last next_key call returned
    max_turns,          \* run: the argument max_turns
    preferred_provider, \* run: the argument preferred_provider, an Option
    history,            \* run: the argument history
    cancel_flag,        \* run: the shared AtomicBool behind the argument cancel_flag
    messages,           \* run: the transcript
    tools_used,         \* run: the tool names in the order the tools were started
    last_provider,      \* run: the provider name of the last successful model call
    turn,               \* run: the loop variable of `for turn in 0..max_turns`
    at,                 \* run: where the run stands: "turn", "model", "tool", "returned"
    tool_calls,         \* run: response.tool_calls while its tools are executed
    tc,                 \* run: the position in tool_calls of the tool call in flight
    progress,           \* run: what on_progress has been called with, in order
    trace,              \* history: what the run did, in order
    outcome,            \* run: what the run returned
    answered,           \* history: the provider name of the last Ok the pool returned to the run
    exchange,           \* adapter call: the adapter and what its HTTP request meets
    chat_ret,           \* adapter call: what chat of the adapter returned
    wait_at,            \* wait_for_completion: "idle", "start", "loop", "returned"
    timeout_secs,       \* wait_for_completion: its argument timeout_secs
    baseline,           \* wait_for_completion: its argument baseline
    elapsed,            \* wait_for_completion: start.elapsed(), in ticks
    prev_content,       \* wait_for_completion: prev_content
    stable_count,       \* wait_for_completion: stable_count
    polls,              \* history: what capture_pane returned to each poll of the loop
    wait_ret,           \* wait_for_completion: what it returned
    split_pc,           \* split_message: "idle", "entry", "loop", "returned"
    split_text,         \* split_message: its argument text
    max_len,            \* split_message: its argument max_len
    remaining,          \* split_message: remaining
    chunks,             \* split_message: chunks, then what it returned
    allowed_users,      \* handler: config.allowed_users
    handled,            \* history: the updates handle_message was called with, in order
    sent,               \* handler: the texts sent or edited into the chat, in order
    db,                 \* handler: the rows append_message has written, in order
    agent_runs,         \* history: the number of agent runs started
    commands            \* history: the number of commands run

\* the pool and the call followed
poolvars == <<providers, default_idx, index, adapter, seen, pc, op, cur, log, result, config>>

\* the key rotator on its own
keypoolvars == <<kp_keys, kp_index, kp_ret>>

\* one run of the agent loop
loopvars == <<max_turns, preferred_provider, history, cancel_flag, messages, tools_used,
              last_provider, turn, at, tool_calls, tc, progress, trace, outcome,
              answered>>

\* one call of a provider adapter
adaptervars == <<exchange, chat_ret>>

\* what lies outside the pool, the key rotator and the agent loop
\* one call of wait_for_completion
waitvars == <<wait_at, timeout_secs, baseline, elapsed, prev_content, stable_count, polls,
              wait_ret>>

\* one call of split_message
splitvars == <<split_pc, split_text, max_len, remaining, chunks>>

\* the message handler of the bot
handlervars == <<allowed_users, handled, sent, db, agent_runs, commands>>

sidevars == <<adaptervars, waitvars, splitvars, handlervars>>

vars == <<poolvars, keypoolvars, loopvars, sidevars>>

pool == <<providers, default_idx, adapter, config>>

\* --------------------------------------------------------------- KeyPool
Min(S) == CHOOSE x \in S : \A y \in S : x <= y

CursorMod == 2 ^ CursorBits

\* faulty variant of FetchAdd: the cursor does not wrap at the integer width
FetchAddNoWrap(c) == c + 1
\* faulty variant of FetchAdd: the cursor advances by two
FetchAddTwo(c) == (c + 2) % CursorMod
\* faulty variant of FetchAdd: the increment is lost
FetchAddLost(c) == c
\* AtomicUsize::fetch_add(1): the new cursor value, wrapping at the integer width
FetchAdd(c) == (c + 1) % CursorMod

\* KeyPool::next_key, the index of the key returned for cursor value c and n keys
KeyIdx(c, n) == c % n

\* KeyPool::next_key of entry p as seen by the caller: None on an empty pool
next_key(p) ==
    IF providers[p].keys = 0
    THEN [some |-> FALSE, key |-> 0]
    ELSE [some |-> TRUE, key |-> KeyIdx(index[p], providers[p].keys)]

\* KeyPool::new(keys)
KeyPoolNew(keys) == [keys |-> keys, index |-> 0]

\* Option<&str>
None == [some |-> FALSE, key |-> ""]
Some(k) == [some |-> TRUE, key |-> k]

\* faulty variant of KeyPoolNextKey: the cursor advances before the list is looked at
KeyPoolNextKeyCountsFirst(keys, c) ==
    IF keys = <<>>
    THEN [ret |-> None, index |-> FetchAdd(c)]
    ELSE [ret |-> Some(keys[KeyIdx(c, Len(keys)) + 1]), index |-> FetchAdd(c)]
\* KeyPool::next_key on the key list keys with the cursor at c: what is returned and
\* where the cursor stands afterwards
KeyPoolNextKey(keys, c) ==
    IF keys = <<>>
    THEN [ret |-> None, index |-> c]
    ELSE [ret |-> Some(keys[KeyIdx(c, Len(keys)) + 1]), index |-> FetchAdd(c)]

\* ------------------------------------------------------ ProviderPool::new
\* faulty variant of PushIfKeys: an entry is made for a backend without keys too
PushAlways(provs, b, n) == Append(provs, [name |-> b, keys |-> n])
\* `if !keys.is_empty() { providers.push(..) }` for backend b with n keys
PushIfKeys(provs, b, n) ==
    IF n > 0 THEN Append(provs, [name |-> b, keys |-> n]) ELSE provs

NewProviders(kc) ==
    PushIfKeys(PushIfKeys(PushIfKeys(PushIfKeys(<<>>,
        Backends[1], kc[1]), Backends[2], kc[2]), Backends[3], kc[3]), Backends[4], kc[4])

\* providers.iter().position(|p| p.provider.name() == name)
Position(provs, name) ==
    {i \in 1..Len(provs) : provs[i].name = name /\ \A j \in 1..(i - 1) : provs[j].name # name}

\* faulty variant of NewDefaultIdx: a name that is not found gives the place of the
\* last backend
NewDefaultIdxLastBackend(provs, default_provider) ==
    IF Position(provs, default_provider) = {} THEN 4
    ELSE Min(Position(provs, default_provider))
\* .position(..).unwrap_or(0)
NewDefaultIdx(provs, default_provider) ==
    IF Position(provs, default_provider) = {} THEN 1
    ELSE Min(Position(provs, default_provider))

KeyCounts ==
    {kc \in [1..4 -> 0..MaxKeys] : kc[1] + kc[2] + kc[3] + kc[4] <= MaxTotalKeys}

\* -------------------------------------------- ProviderPool::provider_order
\* faulty variant of provider_order: in the fallback leg of chat_with_provider the
\* provider asked for comes first
ProviderOrderNamedFirst ==
    LET front == IF op.kind = "chat_with_provider" /\ Position(providers, op.name) # {}
                 THEN Min(Position(providers, op.name)) ELSE default_idx
    IN  <<front>> \o SelectSeq([i \in 1..Len(providers) |-> i], LAMBDA i : i # front)
\* faulty variant of provider_order: the default pushed first and not skipped afterwards
ProviderOrderDup == <<default_idx>> \o [i \in 1..Len(providers) |-> i]
provider_order ==
    <<default_idx>> \o SelectSeq([i \in 1..Len(providers) |-> i], LAMBDA i : i # default_idx)

NumKeys(pos) == providers[provider_order[pos]].keys

\* ProviderPool::available_providers: the names of the entries that have a key
available_providers ==
    LET withKeys == SelectSeq(providers, LAMBDA e : e.keys # 0)
    IN  [i \in 1..Len(withKeys) |-> withKeys[i].name]

\* ------------------------------------------------------ ProviderPool::chat
\* position pos of the visit order has no key at all: `for _attempt in 0..num_keys`
\* runs zero times and the outer loop goes on
RECURSIVE SkipEmpty(_)
SkipEmpty(pos) ==
    IF pos <= Len(provider_order) /\ NumKeys(pos) = 0 THEN SkipEmpty(pos + 1) ELSE pos

\* `break`: leave the key loop, the outer loop takes the next provider
BreakProvider(pos, attempt) == [pos |-> SkipEmpty(pos + 1), attempt |-> 0]

\* faulty variant of ContinueKey: the key loop runs one time too many
ContinueKeyOneMore(pos, attempt) ==
    IF attempt + 1 <= NumKeys(pos)
    THEN [pos |-> pos, attempt |-> attempt + 1]
    ELSE [pos |-> SkipEmpty(pos + 1), attempt |-> 0]
\* `continue`: the next iteration of `for _attempt in 0..num_keys`, if there is one
ContinueKey(pos, attempt) ==
    IF attempt + 1 < NumKeys(pos)
    THEN [pos |-> pos, attempt |-> attempt + 1]
    ELSE [pos |-> SkipEmpty(pos + 1), attempt |-> 0]

\* faulty variant of OnError: a rate limit abandons the provider like any other error
OnErrorSkipAlways(kind, pos, attempt) == BreakProvider(pos, attempt)
\* faulty variant of OnError: an auth error rotates to the next key like a rate limit
OnErrorRotateAuth(kind, pos, attempt) ==
    IF kind \in {"RateLimited", "AuthError"}
    THEN ContinueKey(pos, attempt) ELSE BreakProvider(pos, attempt)
\* the Err arms of the match on the adapter's result: where the loops go next
OnError(kind, pos, attempt) ==
    CASE kind = "RateLimited" -> ContinueKey(pos, attempt)
      [] kind = "AuthError" -> BreakProvider(pos, attempt)
      [] OTHER -> BreakProvider(pos, attempt)

\* ---------------------------------------------------------------- results
NoResult == [kind |-> "none", response |-> 0, provider |-> "", detail |-> ""]
NoAttempt == [prov |-> 0, key |-> 0, pos |-> 0, attempt |-> 0, fast |-> FALSE]

\* faulty variant of ChatOk: the name of the default provider instead of the one that answered
ChatOkDefaultName(resp, p) ==
    [kind |-> "Ok", response |-> resp, provider |-> providers[default_idx].name, detail |-> ""]
\* Ok((response, provider_name)) of chat, provider_name = entry.provider.name()
ChatOk(resp, p) ==
    [kind |-> "Ok", response |-> resp, provider |-> providers[p].name, detail |-> ""]

\* faulty variant of FastOk: the name of the default provider instead of the one asked for
FastOkDefaultName(resp, name) ==
    [kind |-> "Ok", response |-> resp, provider |-> providers[default_idx].name, detail |-> ""]
\* Ok((response, provider_name.to_string())) of chat_with_provider
FastOk(resp, name) ==
    [kind |-> "Ok", response |-> resp, provider |-> name, detail |-> ""]

\* faulty variant of ErrNoKeys: the empty pool reported as exhaustion
ErrNoKeysAsAllFailed ==
    [kind |-> "RequestError", response |-> 0, provider |-> "", detail |-> AllProvidersFailed]
\* Err(ProviderError::NoKeys)
ErrNoKeys == [kind |-> "NoKeys", response |-> 0, provider |-> "", detail |-> ""]

\* faulty variant of ErrAllFailed: the empty-pool error is reused for exhaustion
ErrAllFailedAsNoKeys == ErrNoKeys
\* Err(ProviderError::RequestError("All providers failed".into()))
ErrAllFailed ==
    [kind |-> "RequestError", response |-> 0, provider |-> "", detail |-> AllProvidersFailed]

\* the number of times x is in seq
Count(seq, x) == Cardinality({i \in 1..Len(seq) : seq[i] = x})

\* the last n elements of s
Window(s, n) == IF Len(s) > n THEN SubSeq(s, Len(s) - n + 1, Len(s)) ELSE s

\* ------------------------------------------------------------ action parts
\* entry.keys.next_key() of entry p: the cursor advances, the key is handed out
Draw(p) ==
    /\ index' = [index EXCEPT ![p] = FetchAdd(@)]
    /\ seen' = [seen EXCEPT ![p] = Window(Append(@, index[p]), providers[p].keys + 1)]

\* entry.keys.next_key() followed by the start of entry.provider.chat(..).await
Send(p, pos, a, f) ==
    /\ Draw(p)
    /\ pc' = "await"
    /\ cur' = [prov |-> p, key |-> next_key(p).key, pos |-> pos, attempt |-> a, fast |-> f]
    /\ UNCHANGED result

\* the call returns res to its caller
Return(res) ==
    /\ pc' = "done"
    /\ result' = res
    /\ cur' = NoAttempt
    /\ UNCHANGED <<index, seen>>

\* the loops of chat standing before attempt a (0-based) at position pos of the order
RunChat(pos, a) ==
    IF pos > Len(provider_order)
    THEN Return(ErrAllFailed)
    ELSE Send(provider_order[pos], pos, a, FALSE)

\* chat from its first line
EnterChat ==
    IF Len(providers) = 0
    THEN Return(ErrNoKeys)
    ELSE RunChat(SkipEmpty(1), 0)

\* ----------------------------------------------------------------- actions
\* pool.chat(messages, tools) is called
Chat ==
    /\ pc = "idle"
    /\ op' = [kind |-> "chat", name |-> ""]
    /\ EnterChat
    /\ UNCHANGED <<pool, log>>
    /\ UNCHANGED <<keypoolvars, loopvars, sidevars>>

\* faulty variant of ChatWithProvider: a name without entry gives a fast-path call on
\* the default entry
ChatWithProviderDefaultFast(name) ==
    /\ pc = "idle"
    /\ op' = [kind |-> "chat_with_provider", name |-> name]
    /\ IF Position(providers, name) # {} /\ next_key(Min(Position(providers, name))).some
       THEN Send(Min(Position(providers, name)), 0, 0, TRUE)
       ELSE IF Len(providers) > 0
       THEN Send(default_idx, 0, 0, TRUE)
       ELSE EnterChat
    /\ UNCHANGED <<pool, log>>
    /\ UNCHANGED <<keypoolvars, loopvars, sidevars>>
\* pool.chat_with_provider(messages, tools, name) is called
ChatWithProvider(name) ==
    /\ pc = "idle"
    /\ op' = [kind |-> "chat_with_provider", name |-> name]
    /\ IF Position(providers, name) # {} /\ next_key(Min(Position(providers, name))).some
       THEN Send(Min(Position(providers, name)), 0, 0, TRUE)
       ELSE EnterChat
    /\ UNCHANGED <<pool, log>>
    /\ UNCHANGED <<keypoolvars, loopvars, sidevars>>

\* the adapter call in flight returns; the call runs on to its next adapter call or
\* to its return
AdapterReply(kind, resp) ==
    /\ pc = "await"
    /\ kind \in adapter[cur.prov][cur.key + 1]
    /\ resp = 0 <=> kind # "Ok"
    /\ log' = Append(log, [prov |-> cur.prov, key |-> cur.key, fast |-> cur.fast,
                           kind |-> kind, resp |-> resp])
    /\ IF cur.fast
       THEN IF kind = "Ok"
            THEN Return(FastOk(resp, op.name))
            ELSE EnterChat
       ELSE IF kind = "Ok"
            THEN Return(ChatOk(resp, cur.prov))
            ELSE RunChat(OnError(kind, cur.pos, cur.attempt).pos,
                         OnError(kind, cur.pos, cur.attempt).attempt)
    /\ UNCHANGED <<pool, op>>
    /\ UNCHANGED <<keypoolvars, loopvars, sidevars>>

\* the caller has consumed the result; the next call can begin
Finish ==
    /\ pc = "done"
    /\ pc' = "idle"
    /\ op' = [kind |-> "", name |-> ""]
    /\ log' = <<>>
    /\ result' = NoResult
    /\ UNCHANGED <<pool, index, seen, cur>>
    /\ UNCHANGED <<keypoolvars, loopvars, sidevars>>

\* another chat or chat_with_provider call, running at the same time on behalf of
\* another agent run, executes its entry.keys.next_key() on entry p
OtherDraw(p) ==
    /\ p \in 1..Len(providers)
    /\ Draw(p)
    /\ UNCHANGED <<pool, pc, op, cur, log, result>>
    /\ UNCHANGED <<keypoolvars, loopvars, sidevars>>

\* next_key is called on the key rotator on its own
NextKey ==
    /\ kp_ret' = [called |-> TRUE, ret |-> KeyPoolNextKey(kp_keys, kp_index).ret]
    /\ kp_index' = KeyPoolNextKey(kp_keys, kp_index).index
    /\ UNCHANGED kp_keys
    /\ UNCHANGED <<poolvars, loopvars, sidevars>>

\* ------------------------------------------------- messages and responses
\* a String is a sequence of pieces; "" is the empty sequence
EmptyString == <<>>

\* the texts a model answers with and the texts found in the history
TextPieces == <<"t1", "t2", "t3">>
Texts == {<<TextPieces[i]>> : i \in 1..NumTexts}
HistoryTexts == {<<"h">>}

\* Option<String>
NoString == [some |-> FALSE, v |-> EmptyString]
SomeString(t) == [some |-> TRUE, v |-> t]

\* Option::unwrap_or_default
unwrap_or_default(o) == IF o.some THEN o.v ELSE EmptyString

\* the tool names a model may ask for, in the byte order of the names: one arm of
\* the match in ToolRegistry::execute and a name that has no arm
SortedToolNames == <<"no_such_tool", "web_search">>
ToolNames == {SortedToolNames[i] : i \in 1..Len(SortedToolNames)}
KnownTools == {"web_search"}

\* tool call ids: opaque strings the provider issues; nothing makes them differ
ToolCallIds == {"call_a", "call_b"}

\* ToolCall { id, function: { name, arguments } }: the arguments are a text, the JSON
\* object "{}" or, in one call of web_search, the text "{" that is not JSON
ToolCalls ==
    [id : ToolCallIds, name : ToolNames, arguments : {"{}"}]
        \cup {[id |-> "call_a", name |-> "web_search", arguments |-> "{"]}

\* Message { role, content }, content one of Text, AssistantWithToolCalls, ToolResult
Text(role, t) ==
    [role |-> role, type |-> "Text", text |-> SomeString(t), tool_calls |-> <<>>,
     tool_call_id |-> "", name |-> ""]

AssistantWithToolCalls(text, tcs) ==
    [role |-> "Assistant", type |-> "AssistantWithToolCalls", text |-> text,
     tool_calls |-> tcs, tool_call_id |-> "", name |-> ""]

\* faulty variant of ToolResult: the tool name is stored as the id of the call
ToolResultIdIsName(id, name, content) ==
    [role |-> "Tool", type |-> "ToolResult", text |-> SomeString(content),
     tool_calls |-> <<>>, tool_call_id |-> name, name |-> name]
\* Message { role: Role::Tool, content: MessageContent::ToolResult { .. } }
ToolResult(id, name, content) ==
    [role |-> "Tool", type |-> "ToolResult", text |-> SomeString(content),
     tool_calls |-> <<>>, tool_call_id |-> id, name |-> name]

\* MessageContent::as_text: the text of the content, "" where an assistant message
\* with tool calls has none
as_text(m) == unwrap_or_default(m.text)

\* messages.iter().rev().find(|m| m.role == Role::Assistant): the positions of the
\* Assistant messages, the last of which is the one found
AssistantPositions(msgs) == {i \in 1..Len(msgs) : msgs[i].role = "Assistant"}
Max(S) == CHOOSE x \in S : \A y \in S : x >= y

\* LlmResponse { content, tool_calls, usage }: the responses with at most n tool calls
LlmResponses(n) ==
    [content : {NoString} \cup {SomeString(t) : t \in Texts},
     tool_calls : UNION {[1..k -> ToolCalls] : k \in 0..n}]

\* serde_json::from_str(args_json): the value of a JSON text, an error for another text
from_str(args_json) ==
    IF args_json = "{}" THEN [ok |-> TRUE, value |-> "{}"] ELSE [ok |-> FALSE, value |-> "null"]
\* .unwrap_or_default() of the parse: Value::Null when the text is not JSON
parse_args(args_json) == IF from_str(args_json).ok THEN from_str(args_json).value ELSE "null"
\* args[key].as_str().unwrap_or(""): neither the empty object nor Null has the key
str_arg(args, key) == ""
\* the arm of the match in ToolRegistry::execute that takes tool_name: the tool
\* implementation it calls, none in the arm `_`
Implementation(tool_name) == IF tool_name \in KnownTools THEN tool_name ELSE "none"

\* the texts a tool implementation may return
ToolOutputs == {<<"out">>}
\* tools::web_search(query)
web_search(query) == ToolOutputs

\* faulty variant of execute: arguments that are not JSON are reported as an error
executeRejectsMalformed(tool_name, args_json) ==
    IF ~from_str(args_json).ok THEN {<<"Invalid arguments: ", args_json>>}
    ELSE IF Implementation(tool_name) # "none" THEN web_search(str_arg(parse_args(args_json), "query"))
    ELSE {<<"Unknown tool: ", tool_name>>}
\* ToolRegistry::execute(tool_name, args_json, ..): the texts it may return
execute(tool_name, args_json) ==
    LET args == parse_args(args_json)
    IN  IF Implementation(tool_name) # "none" THEN web_search(str_arg(args, "query"))
        ELSE {<<"Unknown tool: ", tool_name>>}

\* faulty variant of dedup_with_counts: the names stand in the order of their first use
dedup_first_seen(tools) ==
    LET firsts == SelectSeq([i \in 1..Len(tools) |-> i],
                            LAMBDA i : \A j \in 1..(i - 1) : tools[j] # tools[i])
        names == [k \in 1..Len(firsts) |-> tools[firsts[k]]]
    IN  [names |-> names, counts |-> [i \in 1..Len(names) |-> Count(tools, names[i])]]
\* dedup_with_counts: the names in the order of the BTreeMap and their counts
dedup_with_counts(tools) ==
    LET names == SelectSeq(SortedToolNames, LAMBDA n : Count(tools, n) > 0)
    IN  [names |-> names, counts |-> [i \in 1..Len(names) |-> Count(tools, names[i])]]

\* the fixed texts of run; the Vietnamese texts are written without their diacritics
\* and the dash of the notice as "--"
CancelDefault == <<"Query da bi dung.">>
CancelNotice == <<"\n\n_-- Query da bi dung._">>
LimitMessage == <<"Reached max processing limit. Please try again.">>
LlmErrorPrefix == <<"LLM error: ">>
SystemPrompt == <<"system prompt">>
UserContent == <<"user content">>

\* -------------------------------------------------------- AgentLoop::run
\* AgentResult { response, tools_used, tools_count, provider, turns }
AgentResult(response, tools, provider, turns) ==
    [response |-> response,
     tools_used |-> dedup_with_counts(tools).names,
     tools_count |-> dedup_with_counts(tools).counts,
     provider |-> provider,
     turns |-> turns]

\* Result<AgentResult, String>, and the run that has not returned
NoOutcome == [kind |-> "none", result |-> AgentResult(EmptyString, <<>>, "", 0), error |-> EmptyString]
Ok(r) == [kind |-> "Ok", result |-> r, error |-> EmptyString]
Err(e) == [kind |-> "Err", result |-> AgentResult(EmptyString, <<>>, "", 0), error |-> e]

\* `{e}` of a ProviderError: the error kind and its detail
Display(e) == <<e.kind, e.detail>>

\* faulty variant of LlmError: the text of the error without the prefix
LlmErrorBare(e) == Display(e)
\* .map_err(|e| format!("LLM error: {e}"))
LlmError(e) == LlmErrorPrefix \o Display(e)

\* what pool.chat or pool.chat_with_provider returns to the run: a response under the
\* name of one of the providers of the pool, or one of the two errors of chat; n bounds
\* the tool calls of the response
PoolOk(r, name) == [kind |-> "Ok", response |-> r, provider |-> name, error |-> NoResult]
PoolErr(e) ==
    [kind |-> "Err", response |-> [content |-> NoString, tool_calls |-> <<>>],
     provider |-> "", error |-> e]
PoolReturns(n) ==
    IF Len(providers) = 0
    THEN {PoolErr(ErrNoKeys)}
    ELSE {PoolOk(r, providers[p].name) : r \in LlmResponses(n), p \in 1..Len(providers)}
            \cup {PoolErr(ErrAllFailed)}

\* AgentProgress
Thinking == [kind |-> "Thinking", name |-> ""]
ToolUse(name) == [kind |-> "ToolUse", name |-> name]

\* one thing the run did: in turn t, on the tool call (id, name) where there is one
Event(ev, t, id, name) == [ev |-> ev, turn |-> t, id |-> id, name |-> name]
\* the pool call of turn t, with the transcript it is given: .chat(&messages, &tool_defs)
ModelCall(t, msgs) ==
    [ev |-> "model_call", turn |-> t, id |-> "", name |-> "", messages |-> msgs]

\* the text of the last Assistant message of msgs, if there is one
LastAssistantText(msgs) ==
    IF AssistantPositions(msgs) = {} THEN NoString
    ELSE SomeString(as_text(msgs[Max(AssistantPositions(msgs))]))

\* faulty variant of CancelledResult: the last assistant message that has a text is
\* taken, not the last assistant message
CancelledResultLastNonEmpty(msgs, tools, provider, t) ==
    LET withText == {i \in AssistantPositions(msgs) : as_text(msgs[i]) # EmptyString}
        last_text == IF withText = {} THEN EmptyString ELSE as_text(msgs[Max(withText)])
    IN  AgentResult(IF last_text = EmptyString THEN CancelDefault
                    ELSE last_text \o CancelNotice,
                    tools, provider, t)
\* faulty variant of CancelledResult: the notice is appended to the last text also
\* when that text is empty
CancelledResultAlwaysAppends(msgs, tools, provider, t) ==
    AgentResult(IF LastAssistantText(msgs).some
                THEN LastAssistantText(msgs).v \o CancelNotice
                ELSE CancelDefault,
                tools, provider, t)
\* the result of a run that finds the cancel flag set at the start of turn t
CancelledResult(msgs, tools, provider, t) ==
    LET last_text == unwrap_or_default(LastAssistantText(msgs))
    IN  AgentResult(IF last_text = EmptyString THEN CancelDefault
                    ELSE last_text \o CancelNotice,
                    tools, provider, t)

\* faulty variant of FinalResult: the loop variable is reported as the number of turns
FinalResultTurnIndex(response, tools, provider, t) ==
    AgentResult(unwrap_or_default(response.content), tools, provider, t)
\* the result of a run whose model answers without tool calls in turn t
FinalResult(response, tools, provider, t) ==
    AgentResult(unwrap_or_default(response.content), tools, provider, t + 1)

\* faulty variant of MaxTurnsResult: only the messages the run itself has pushed after
\* the history are searched for the last Assistant message
MaxTurnsResultOwnMessages(msgs, tools, provider) ==
    LET own == SubSeq(msgs, Len(history) + 2, Len(msgs))
        last_assistant == IF LastAssistantText(own).some THEN LastAssistantText(own).v
                          ELSE LimitMessage
    IN  AgentResult(last_assistant, tools, provider, max_turns)
\* faulty variant of MaxTurnsResult: an empty last text is replaced by the fixed message,
\* as the cancel path replaces it by its default notice
MaxTurnsResultChecksEmpty(msgs, tools, provider) ==
    LET last_text == unwrap_or_default(LastAssistantText(msgs))
    IN  AgentResult(IF last_text = EmptyString THEN LimitMessage ELSE last_text,
                    tools, provider, max_turns)
\* the result of a run that has used up its turns
MaxTurnsResult(msgs, tools, provider) ==
    LET last_assistant == IF LastAssistantText(msgs).some THEN LastAssistantText(msgs).v
                          ELSE LimitMessage
    IN  AgentResult(last_assistant, tools, provider, max_turns)

\* the run returns o
ReturnRun(o) ==
    /\ at' = "returned"
    /\ outcome' = o
    /\ tool_calls' = <<>>
    /\ tc' = 0

\* faulty variant of StartTool: the tool calls are taken from the last to the first
StartToolFromLast(calls, k, t, tr) ==
    LET call == calls[Len(calls) + 1 - k]
    IN  /\ tools_used' = Append(tools_used, call.name)
        /\ progress' = Append(progress, ToolUse(call.name))
        /\ trace' = tr \o <<Event("tool_use", t, call.id, call.name),
                             Event("execute", t, call.id, call.name)>>
        /\ tool_calls' = calls
        /\ tc' = k
        /\ at' = "tool"
        /\ UNCHANGED outcome
\* the body of `for tc in &response.tool_calls` for the k-th of calls, up to the await
\* of ToolRegistry::execute, in turn t; tr is what the run did before
StartTool(calls, k, t, tr) ==
    /\ tools_used' = Append(tools_used, calls[k].name)
    /\ progress' = Append(progress, ToolUse(calls[k].name))
    /\ trace' = tr \o <<Event("tool_use", t, calls[k].id, calls[k].name),
                         Event("execute", t, calls[k].id, calls[k].name)>>
    /\ tool_calls' = calls
    /\ tc' = k
    /\ at' = "tool"
    /\ UNCHANGED outcome

\* faulty variant of TurnHead: Thinking is notified before the cancel flag is read
TurnHeadThinksFirst ==
    /\ at = "turn"
    /\ IF turn >= max_turns
       THEN /\ ReturnRun(Ok(MaxTurnsResult(messages, tools_used, last_provider)))
            /\ UNCHANGED <<progress, trace>>
       ELSE IF cancel_flag
       THEN /\ ReturnRun(Ok(CancelledResult(messages, tools_used, last_provider, turn)))
            /\ trace' = trace \o <<Event("thinking", turn, "", ""),
                                    Event("load_cancel", turn, "", "")>>
            /\ progress' = Append(progress, Thinking)
       ELSE /\ trace' = trace \o <<Event("thinking", turn, "", ""),
                                    Event("load_cancel", turn, "", ""),
                                    ModelCall(turn, messages)>>
            /\ progress' = Append(progress, Thinking)
            /\ at' = "model"
            /\ UNCHANGED <<outcome, tool_calls, tc>>
    /\ UNCHANGED <<max_turns, preferred_provider, history, cancel_flag, messages,
                   tools_used, last_provider, turn, answered>>
    /\ UNCHANGED <<poolvars, keypoolvars, sidevars>>
\* faulty variant of TurnHead: the range of the loop is 0..=max_turns
TurnHeadInclusive ==
    /\ at = "turn"
    /\ IF turn > max_turns
       THEN /\ ReturnRun(Ok(MaxTurnsResult(messages, tools_used, last_provider)))
            /\ UNCHANGED <<progress, trace>>
       ELSE IF cancel_flag
       THEN /\ ReturnRun(Ok(CancelledResult(messages, tools_used, last_provider, turn)))
            /\ trace' = Append(trace, Event("load_cancel", turn, "", ""))
            /\ UNCHANGED progress
       ELSE /\ trace' = trace \o <<Event("load_cancel", turn, "", ""),
                                    Event("thinking", turn, "", ""),
                                    ModelCall(turn, messages)>>
            /\ progress' = Append(progress, Thinking)
            /\ at' = "model"
            /\ UNCHANGED <<outcome, tool_calls, tc>>
    /\ UNCHANGED <<max_turns, preferred_provider, history, cancel_flag, messages,
                   tools_used, last_provider, turn, answered>>
    /\ UNCHANGED <<poolvars, keypoolvars, sidevars>>
\* faulty variant of TurnHead: the cancel flag is read once more when the turns are
\* used up
TurnHeadChecksAfterLoop ==
    /\ at = "turn"
    /\ IF cancel_flag
       THEN /\ ReturnRun(Ok(CancelledResult(messages, tools_used, last_provider, turn)))
            /\ trace' = Append(trace, Event("load_cancel", turn, "", ""))
            /\ UNCHANGED progress
       ELSE IF turn >= max_turns
       THEN /\ ReturnRun(Ok(MaxTurnsResult(messages, tools_used, last_provider)))
            /\ trace' = Append(trace, Event("load_cancel", turn, "", ""))
            /\ UNCHANGED progress
       ELSE /\ trace' = trace \o <<Event("load_cancel", turn, "", ""),
                                    Event("thinking", turn, "", ""),
                                    ModelCall(turn, messages)>>
            /\ progress' = Append(progress, Thinking)
            /\ at' = "model"
            /\ UNCHANGED <<outcome, tool_calls, tc>>
    /\ UNCHANGED <<max_turns, preferred_provider, history, cancel_flag, messages,
                   tools_used, last_provider, turn, answered>>
    /\ UNCHANGED <<poolvars, keypoolvars, sidevars>>
\* the head of `for turn in 0..max_turns` and the turn up to the await of the pool
TurnHead ==
    /\ at = "turn"
    /\ IF turn >= max_turns
       THEN /\ ReturnRun(Ok(MaxTurnsResult(messages, tools_used, last_provider)))
            /\ UNCHANGED <<progress, trace>>
       ELSE IF cancel_flag
       THEN /\ ReturnRun(Ok(CancelledResult(messages, tools_used, last_provider, turn)))
            /\ trace' = Append(trace, Event("load_cancel", turn, "", ""))
            /\ UNCHANGED progress
       ELSE /\ trace' = trace \o <<Event("load_cancel", turn, "", ""),
                                    Event("thinking", turn, "", ""),
                                    ModelCall(turn, messages)>>
            /\ progress' = Append(progress, Thinking)
            /\ at' = "model"
            /\ UNCHANGED <<outcome, tool_calls, tc>>
    /\ UNCHANGED <<max_turns, preferred_provider, history, cancel_flag, messages,
                   tools_used, last_provider, turn, answered>>
    /\ UNCHANGED <<poolvars, keypoolvars, sidevars>>

\* faulty variant of ProviderName: the provider asked for is taken for the one that
\* answered
ProviderNamePinned(res) ==
    IF preferred_provider.some THEN preferred_provider.v ELSE res.provider
\* provider_name of `let (response, provider_name) = match preferred_provider {..}`
ProviderName(res) == res.provider

\* the pool call of the turn returns res; the run goes on to its return or to the
\* await of the first tool
ModelReply(res) ==
    /\ at = "model"
    /\ res \in PoolReturns(Min({MaxBatch, MaxToolCalls - Len(tools_used)}))
    /\ IF res.kind = "Err"
       THEN /\ ReturnRun(Err(LlmError(res.error)))
            /\ UNCHANGED <<messages, tools_used, last_provider, progress, trace, answered>>
       ELSE /\ last_provider' = ProviderName(res)
            /\ answered' = res.provider
            /\ IF res.response.tool_calls = <<>>
               THEN /\ ReturnRun(Ok(FinalResult(res.response, tools_used, ProviderName(res), turn)))
                    /\ UNCHANGED <<messages, tools_used, progress, trace>>
               ELSE /\ messages' = Append(messages,
                            AssistantWithToolCalls(res.response.content, res.response.tool_calls))
                    /\ StartTool(res.response.tool_calls, 1, turn, trace)
    /\ UNCHANGED <<max_turns, preferred_provider, history, cancel_flag, turn>>
    /\ UNCHANGED <<poolvars, keypoolvars, sidevars>>

\* faulty variant of ToolReply: the rest of the batch is dropped when the cancel flag is set
ToolReplyChecksCancel(result_text) ==
    /\ at = "tool"
    /\ result_text \in execute(tool_calls[tc].name, tool_calls[tc].arguments)
    /\ messages' = Append(messages,
            ToolResult(tool_calls[tc].id, tool_calls[tc].name, result_text))
    /\ IF tc < Len(tool_calls) /\ ~cancel_flag
       THEN /\ StartTool(tool_calls, tc + 1, turn,
                         Append(trace, Event("tool_result", turn, tool_calls[tc].id,
                                             tool_calls[tc].name)))
            /\ UNCHANGED turn
       ELSE /\ turn' = turn + 1
            /\ at' = "turn"
            /\ tool_calls' = <<>>
            /\ tc' = 0
            /\ trace' = Append(trace, Event("tool_result", turn, tool_calls[tc].id,
                                            tool_calls[tc].name))
            /\ UNCHANGED <<tools_used, progress, outcome>>
    /\ UNCHANGED <<max_turns, preferred_provider, history, cancel_flag, last_provider,
                   answered>>
    /\ UNCHANGED <<poolvars, keypoolvars, sidevars>>
\* the tool in flight returns result; the run goes on to the await of the next tool of
\* the batch or to the head of the next turn
ToolReply(result_text) ==
    /\ at = "tool"
    /\ result_text \in execute(tool_calls[tc].name, tool_calls[tc].arguments)
    /\ messages' = Append(messages,
            ToolResult(tool_calls[tc].id, tool_calls[tc].name, result_text))
    /\ IF tc < Len(tool_calls)
       THEN /\ StartTool(tool_calls, tc + 1, turn,
                         Append(trace, Event("tool_result", turn, tool_calls[tc].id,
                                             tool_calls[tc].name)))
            /\ UNCHANGED turn
       ELSE /\ turn' = turn + 1
            /\ at' = "turn"
            /\ tool_calls' = <<>>
            /\ tc' = 0
            /\ trace' = Append(trace, Event("tool_result", turn, tool_calls[tc].id,
                                            tool_calls[tc].name))
            /\ UNCHANGED <<tools_used, progress, outcome>>
    /\ UNCHANGED <<max_turns, preferred_provider, history, cancel_flag, last_provider,
                   answered>>
    /\ UNCHANGED <<poolvars, keypoolvars, sidevars>>

\* another thread sets the cancel flag while the run is under way
SetCancel ==
    /\ at \in {"turn", "model", "tool"}
    /\ ~cancel_flag
    /\ cancel_flag' = TRUE
    /\ UNCHANGED <<max_turns, preferred_provider, history, messages, tools_used,
                   last_provider, turn, at, tool_calls, tc, progress, trace, outcome,
                   answered>>
    /\ UNCHANGED <<poolvars, keypoolvars, sidevars>>

\* ----------------------------------------------------------- specification
FreeAdapter(provs) == [p \in 1..Len(provs) |-> [k \in 1..provs[p].keys |-> ReplyKinds]]

InitCall ==
    /\ pc = "idle"
    /\ op = [kind |-> "", name |-> ""]
    /\ cur = NoAttempt
    /\ log = <<>>
    /\ result = NoResult

InitPool(kc, default_provider) ==
    /\ config = [keys |-> kc, default_provider |-> default_provider]
    /\ providers = NewProviders(kc)
    /\ default_idx = NewDefaultIdx(NewProviders(kc), default_provider)
    /\ index = [p \in 1..Len(NewProviders(kc)) |-> 0]
    /\ seen = [p \in 1..Len(NewProviders(kc)) |-> <<>>]

\* the key lists KeyPool::new may be given
KeyLists == UNION {[1..n -> KeyStrings] : n \in 0..MaxKeys}

\* a key rotator after KeyPool::new(keys), next_key not yet called
InitKeyPool(keys) ==
    /\ kp_keys = KeyPoolNew(keys).keys
    /\ kp_index = KeyPoolNew(keys).index
    /\ kp_ret = [called |-> FALSE, ret |-> None]

\* faulty variant of InitRun: the user message stands before the history
InitRunUserBeforeHistory(mt, pref, hist, flag) ==
    /\ max_turns = mt
    /\ preferred_provider = pref
    /\ history = hist
    /\ cancel_flag = flag
    /\ messages = <<Text("System", SystemPrompt)>> \o <<Text("User", UserContent)>> \o hist
    /\ tools_used = <<>>
    /\ last_provider = ""
    /\ turn = 0
    /\ at = "turn"
    /\ tool_calls = <<>>
    /\ tc = 0
    /\ progress = <<>>
    /\ trace = <<>>
    /\ outcome = NoOutcome
    /\ answered = ""
\* AgentLoop::run after its first lines: the transcript is built, no turn has begun
InitRun(mt, pref, hist, flag) ==
    /\ max_turns = mt
    /\ preferred_provider = pref
    /\ history = hist
    /\ cancel_flag = flag
    /\ messages = <<Text("System", SystemPrompt)>> \o hist \o <<Text("User", UserContent)>>
    /\ tools_used = <<>>
    /\ last_provider = ""
    /\ turn = 0
    /\ at = "turn"
    /\ tool_calls = <<>>
    /\ tc = 0
    /\ progress = <<>>
    /\ trace = <<>>
    /\ outcome = NoOutcome
    /\ answered = ""

\* ------------------------------------------------------ provider adapters
\* the adapters whose chat is modelled
AdapterNames == {"gemini", "groq", "mistral"}
\* HTTP status codes a backend may answer with
Statuses == {200, 204, 301, 400, 401, 403, 404, 429, 500, 503}
\* response bodies: JSON with a choice, JSON without choices, a text that is not JSON
Bodies == {"choices", "no_choices", "not_json"}
\* what the request of one chat call meets: send() fails, or a response comes back
NotSent(a) == [adapter |-> a, sent |-> FALSE, status |-> 0, body |-> "none"]
Exchanges ==
    [adapter : AdapterNames, sent : {TRUE}, status : Statuses, body : Bodies]
        \cup {NotSent(a) : a \in AdapterNames}

\* Result<LlmResponse, ProviderError> of an adapter
NoReply == [kind |-> "none", detail |-> <<>>]
OkReply == [kind |-> "Ok", detail |-> <<>>]
RateLimited == [kind |-> "RateLimited", detail |-> <<>>]
AuthError(detail) == [kind |-> "AuthError", detail |-> detail]
ParseError(detail) == [kind |-> "ParseError", detail |-> detail]
RequestError(detail) == [kind |-> "RequestError", detail |-> detail]

\* StatusCode::is_success
is_success(status) == 200 <= status /\ status <= 299

\* parse_oai_response(resp)
parse_oai_response(body) ==
    IF body = "not_json" THEN ParseError(<<"json">>)
    ELSE IF body = "no_choices" THEN ParseError(<<"No choices in response">>)
    ELSE OkReply

\* GeminiProvider::chat
GeminiChat(x) ==
    IF ~x.sent THEN RequestError(<<"send">>)
    ELSE IF x.status = 429 THEN RateLimited
    ELSE IF x.status = 401 \/ x.status = 403 THEN AuthError(<<"HTTP ", x.status>>)
    ELSE IF ~is_success(x.status) THEN RequestError(<<"HTTP ", x.status, ": ", x.body>>)
    ELSE parse_oai_response(x.body)

\* GroqProvider::chat
GroqChat(x) ==
    IF ~x.sent THEN RequestError(<<"send">>)
    ELSE IF x.status = 429 THEN RateLimited
    ELSE IF x.status = 401 THEN AuthError(<<"HTTP ", x.status>>)
    ELSE IF ~is_success(x.status) THEN RequestError(<<"HTTP ", x.status, ": ", x.body>>)
    ELSE parse_oai_response(x.body)

\* MistralProvider::chat
MistralChat(x) ==
    IF ~x.sent THEN RequestError(<<"send">>)
    ELSE IF x.status = 429 THEN RateLimited
    ELSE IF x.status = 401 THEN AuthError(<<"HTTP ", x.status>>)
    ELSE IF ~is_success(x.status) THEN RequestError(<<"HTTP ", x.status, ": ", x.body>>)
    ELSE parse_oai_response(x.body)

\* the call of chat of the adapter of exchange returns
ProviderChat ==
    /\ chat_ret = NoReply
    /\ exchange.adapter \in AdapterNames
    /\ chat_ret' = CASE exchange.adapter = "gemini" -> GeminiChat(exchange)
                      [] exchange.adapter = "groq" -> GroqChat(exchange)
                      [] exchange.adapter = "mistral" -> MistralChat(exchange)
    /\ UNCHANGED exchange
    /\ UNCHANGED <<poolvars, keypoolvars, loopvars, waitvars, splitvars, handlervars>>

\* no call of wait_for_completion is followed
InitWaitIdle ==
    /\ wait_at = "idle"
    /\ timeout_secs = 0
    /\ baseline = <<>>
    /\ elapsed = 0
    /\ prev_content = <<>>
    /\ stable_count = 0
    /\ polls = <<>>
    /\ wait_ret = <<>>

\* no call of split_message is followed
InitSplitIdle ==
    /\ split_pc = "idle"
    /\ split_text = <<>>
    /\ max_len = 0
    /\ remaining = <<>>
    /\ chunks = <<>>

\* no update has reached the handler
InitHandlerIdle ==
    /\ allowed_users = <<>>
    /\ handled = <<>>
    /\ sent = <<>>
    /\ db = <<>>
    /\ agent_runs = 0
    /\ commands = 0

\* no adapter call is followed
InitSideIdle ==
    /\ exchange = NotSent("")
    /\ chat_ret = NoReply
    /\ InitWaitIdle
    /\ InitSplitIdle
    /\ InitHandlerIdle

\* no run of the agent loop is under way
InitNoRun ==
    /\ max_turns = 0
    /\ preferred_provider = [some |-> FALSE, v |-> ""]
    /\ history = <<>>
    /\ cancel_flag = FALSE
    /\ messages = <<>>
    /\ tools_used = <<>>
    /\ last_provider = ""
    /\ turn = 0
    /\ at = "none"
    /\ tool_calls = <<>>
    /\ tc = 0
    /\ progress = <<>>
    /\ trace = <<>>
    /\ outcome = NoOutcome
    /\ answered = ""

\* the pool after ProviderPool::new, no call yet; every adapter reply is possible
Init ==
    /\ \E kc \in KeyCounts, d \in ProviderNames : InitPool(kc, d)
    /\ adapter = FreeAdapter(providers)
    /\ InitCall
    /\ InitKeyPool(<<>>)
    /\ InitSideIdle
    /\ InitNoRun

\* calls of chat, next to the next_key calls of other runs
Next ==
    \/ Chat
    \/ \E kind \in ReplyKinds, resp \in {0} \cup Responses : AdapterReply(kind, resp)
    \/ Finish
    \/ \E p \in 1..4 : OtherDraw(p)

Spec == Init /\ [][Next]_vars

\* what a credential can be: valid, out of quota, revoked
KeyedKinds == {"Ok", "RateLimited", "AuthError"}

\* position of key k (1-based) of entry p when all keys of the pool are counted through
RECURSIVE KeyNo(_, _, _)
KeyNo(provs, p, k) == IF p = 1 THEN k ELSE provs[p - 1].keys + KeyNo(provs, p - 1, k)

\* the same pool where the reply to a credential is a fixed property of the credential
InitKeyed ==
    /\ \E kc \in KeyCounts, d \in ProviderNames : InitPool(kc, d)
    /\ \E f \in [1..MaxTotalKeys -> KeyedKinds] :
         adapter = [p \in 1..Len(providers) |->
                      [k \in 1..providers[p].keys |-> {f[KeyNo(providers, p, k)]}]]
    /\ InitCall
    /\ InitKeyPool(<<>>)
    /\ InitSideIdle
    /\ InitNoRun

SpecKeyed == InitKeyed /\ [][Next]_vars

\* calls of chat_with_provider and of chat, next to the next_key calls of other runs
NextNamed ==
    \/ Chat
    \/ \E name \in ProviderNames : ChatWithProvider(name)
    \/ \E kind \in ReplyKinds, resp \in {0} \cup Responses : AdapterReply(kind, resp)
    \/ Finish
    \/ \E p \in 1..4 : OtherDraw(p)

\* the names of the backends that have keys in kc; every name if none has
NamedDefaults(kc) ==
    IF \A b \in 1..4 : kc[b] = 0
    THEN ProviderNames
    ELSE {Backends[b] : b \in {c \in 1..4 : kc[c] > 0}}

\* the pools of Init whose default_provider names a backend that has keys (any other
\* default_provider gives one of these pools again, with the first entry the default)
InitNamed ==
    /\ \E kc \in KeyCounts : \E d \in NamedDefaults(kc) : InitPool(kc, d)
    /\ adapter = FreeAdapter(providers)
    /\ InitCall
    /\ InitKeyPool(<<>>)
    /\ InitSideIdle
    /\ InitNoRun

SpecNamed == InitNamed /\ [][NextNamed]_vars

\* a key rotator on its own, made from any key list; the pool next to it has no provider
\* and is not called
InitRotator ==
    /\ InitPool([b \in 1..4 |-> 0], "claude")
    /\ adapter = FreeAdapter(providers)
    /\ InitCall
    /\ \E keys \in KeyLists : InitKeyPool(keys)
    /\ InitSideIdle
    /\ InitNoRun

NextRotator == NextKey

SpecRotator == InitRotator /\ [][NextRotator]_vars

\* the histories a run may be given: Text messages of the roles User and Assistant
Histories ==
    UNION {[1..n -> {Text(r, t) : r \in {"User", "Assistant"}, t \in HistoryTexts}] :
              n \in 0..MaxHistory}

\* the histories of up to MaxLongHistory messages, a stored text may be empty (the
\* handler stores the cleaned response of a run, whatever it is)
LongHistories ==
    UNION {[1..n -> {Text(r, t) : r \in {"User", "Assistant"}, t \in HistoryTexts \cup {EmptyString}}] :
              n \in 0..MaxLongHistory}

\* preferred_provider: None or Some(name)
PreferredProviders == {[some |-> FALSE, v |-> ""], [some |-> TRUE, v |-> "gemini"]}

\* the key counts of the pools a run is given: no provider, or claude and gemini
LoopKeyCounts == {<<0, 0, 0, 0>>, <<1, 1, 0, 0>>}

\* a run of the agent loop at its start, on a pool that only this run uses
InitLoop ==
    /\ \E kc \in LoopKeyCounts : InitPool(kc, "claude")
    /\ adapter = FreeAdapter(providers)
    /\ InitCall
    /\ InitKeyPool(<<>>)
    /\ InitSideIdle
    /\ \E mt \in 0..MaxTurns, pref \in PreferredProviders, hist \in Histories,
          flag \in BOOLEAN : InitRun(mt, pref, hist, flag)

NextLoop ==
    \/ TurnHead
    \/ \E res \in PoolReturns(MaxBatch) : ModelReply(res)
    \/ \E result_text \in ToolOutputs \cup {<<"Unknown tool: ", n>> : n \in ToolNames} :
          ToolReply(result_text)
    \/ SetCancel

SpecLoop == InitLoop /\ [][NextLoop]_vars

\* the runs of few turns on every history of LongHistories, without preferred provider
InitLoopHist ==
    /\ \E kc \in LoopKeyCounts : InitPool(kc, "claude")
    /\ adapter = FreeAdapter(providers)
    /\ InitCall
    /\ InitKeyPool(<<>>)
    /\ InitSideIdle
    /\ \E mt \in 0..MaxShortTurns, hist \in LongHistories, flag \in BOOLEAN :
          InitRun(mt, [some |-> FALSE, v |-> ""], hist, flag)

SpecLoopHist == InitLoopHist /\ [][NextLoop]_vars

\* a run whose awaits return: the task is polled until it returns, every pool call and
\* every tool call comes back; nothing obliges another thread to set the cancel flag
LoopFairness ==
    /\ WF_vars(TurnHead)
    /\ WF_vars(\E res \in PoolReturns(MaxBatch) : ModelReply(res))
    /\ WF_vars(\E result_text \in ToolOutputs \cup {<<"Unknown tool: ", n>> : n \in ToolNames} :
                  ToolReply(result_text))

\* the runs without history and without preferred provider: neither is read by the
\* control flow of the loop
InitLoopFair ==
    /\ \E kc \in LoopKeyCounts : InitPool(kc, "claude")
    /\ adapter = FreeAdapter(providers)
    /\ InitCall
    /\ InitKeyPool(<<>>)
    /\ InitSideIdle
    /\ \E mt \in 0..MaxTurns, flag \in BOOLEAN : InitRun(mt, [some |-> FALSE, v |-> ""], <<>>, flag)

SpecLoopFair == InitLoopFair /\ [][NextLoop]_vars /\ LoopFairness

\* one chat call of one adapter, for every adapter and every exchange
InitAdapter ==
    /\ InitPool(<<0, 0, 0, 0>>, "claude")
    /\ adapter = FreeAdapter(providers)
    /\ InitCall
    /\ InitKeyPool(<<>>)
    /\ InitNoRun
    /\ exchange \in Exchanges
    /\ chat_ret = NoReply
    /\ InitWaitIdle
    /\ InitSplitIdle
    /\ InitHandlerIdle

NextAdapter == ProviderChat

SpecAdapter == InitAdapter /\ [][NextAdapter]_vars

\* ------------------------------------------------ wait_for_completion
\* A pane content is a sequence of characters; "ESC" stands for U+001B, "BEL" for
\* U+0007 and "U+...." for the character of that code point.

\* time is counted in ticks of half a second
TicksPerSecond == 2
\* sleep(Duration::from_secs(2)) before the loop, in ticks
InitialWait == 4
\* sleep(Duration::from_millis(1500)) in the loop, in ticks
PollWait == 3
\* the number of unchanged polls needed
StableNeeded == 2
\* a longer last line is no prompt
MaxPromptLen == 200

\* the timeouts tried, in seconds
MaxTimeoutSecs == 7
\* how many ticks later than asked a sleep and the capture after it may end
MaxLatency == 1

\* char::len_utf8, on the characters that occur
len_utf8(c) ==
    CASE c = "U+00E9" -> 2
      [] c \in {"U+276F", "U+20AC"} -> 3
      [] c = "U+1F600" -> 4
      [] OTHER -> 1

\* str::len: the length in bytes
RECURSIVE len(_)
len(str) == IF str = <<>> THEN 0 ELSE len_utf8(Head(str)) + len(Tail(str))

\* the rest of str after its first n characters
Drop(str, n) == SubSeq(str, n + 1, Len(str))

\* char::is_ascii_alphabetic, on the characters that occur
AsciiLetters == {"a", "b", "m"}

\* strip_ansi, the CSI branch: the input after the final byte of the sequence
RECURSIVE skip_csi(_)
skip_csi(str) ==
    IF str = <<>> THEN <<>>
    ELSE IF Head(str) \in AsciiLetters \cup {"@", "~"} THEN Tail(str)
    ELSE skip_csi(Tail(str))

\* strip_ansi, the OSC branch: the input after BEL or ESC \
RECURSIVE skip_osc(_)
skip_osc(str) ==
    IF str = <<>> THEN <<>>
    ELSE IF Head(str) = "BEL" THEN Tail(str)
    ELSE IF Head(str) = "ESC"
    THEN IF Len(str) >= 2 /\ str[2] = "\\" THEN Drop(str, 2) ELSE Tail(str)
    ELSE skip_osc(Tail(str))

RECURSIVE strip_ansi(_)
strip_ansi(input) ==
    IF input = <<>> THEN <<>>
    ELSE LET c == Head(input)
             rest == Tail(input)
         IN  IF c = "ESC"
             THEN IF rest = <<>> THEN <<>>
                  ELSE IF Head(rest) = "[" THEN strip_ansi(skip_csi(Tail(rest)))
                  ELSE IF Head(rest) = "]" THEN strip_ansi(skip_osc(Tail(rest)))
                  ELSE IF Head(rest) \in {"(", ")"} THEN strip_ansi(Drop(rest, 2))
                  ELSE strip_ansi(Tail(rest))
             ELSE IF c = "\r" THEN strip_ansi(rest)
             ELSE <<c>> \o strip_ansi(rest)

\* str::lines: the lines of str, without their terminators
RECURSIVE lines(_)
lines(str) ==
    IF str = <<>> THEN <<>>
    ELSE LET ends == {i \in 1..Len(str) : str[i] = "\n"}
             line == IF ends = {} THEN str ELSE SubSeq(str, 1, Min(ends) - 1)
             bare == IF line # <<>> /\ line[Len(line)] = "\r"
                     THEN SubSeq(line, 1, Len(line) - 1) ELSE line
         IN  <<bare>> \o (IF ends = {} THEN <<>> ELSE lines(Drop(str, Min(ends))))

\* char::is_whitespace, on the characters that occur
WhiteSpace == {" ", "\t", "\n", "\r"}

\* str::trim
trim(str) ==
    LET solid == {i \in 1..Len(str) : str[i] \notin WhiteSpace}
    IN  IF solid = {} THEN <<>> ELSE SubSeq(str, Min(solid), Max(solid))

\* str::ends_with
ends_with(str, suffix) ==
    /\ Len(str) >= Len(suffix)
    /\ SubSeq(str, Len(str) - Len(suffix) + 1, Len(str)) = suffix

\* [&str]::join
RECURSIVE join(_, _)
join(strs, sep) ==
    IF strs = <<>> THEN <<>>
    ELSE IF Len(strs) = 1 THEN strs[1]
    ELSE strs[1] \o sep \o join(Tail(strs), sep)

looks_like_prompt(content) ==
    LET ls == lines(content)
        full == {i \in 1..Len(ls) : trim(ls[i]) # <<>>}
    IN  IF full = {} THEN FALSE
        ELSE LET trimmed == trim(ls[Max(full)])
             IN  IF len(trimmed) > MaxPromptLen THEN FALSE
                 ELSE \/ ends_with(trimmed, <<">">>)
                      \/ ends_with(trimmed, <<"U+276F">>)
                      \/ ends_with(trimmed, <<"$", " ">>)
                      \/ trimmed = <<"$">>
                      \/ trimmed = <<">">>
                      \/ trimmed = <<"U+276F">>

extract_response(base, current) ==
    LET baseline_lines == lines(strip_ansi(base))
        current_lines == lines(strip_ansi(current))
        differ == {i \in 1..Len(current_lines) :
                       i > Len(baseline_lines) \/ baseline_lines[i] # current_lines[i]}
        common == IF differ = {} THEN Len(current_lines) ELSE Min(differ) - 1
    IN  join(Drop(current_lines, common), <<"\n">>)

\* Result<String, String> of capture_pane, the error text left out
Captured(content) == [ok |-> TRUE, v |-> content]
CaptureFailed == [ok |-> FALSE, v |-> <<>>]

\* what the pane may show: nothing, the prompt the message was typed at, the answer
\* under way, the answer with a new prompt (plain and coloured), a shell prompt
Panes ==
    {<<>>,
     <<">">>,
     <<">", "\n", "a">>,
     <<">", "\n", "a", "\n", ">", " ", "\n">>,
     <<">", "\n", "a", "\n", "ESC", "[", "1", "m", ">", " ", "\r", "\n">>,
     <<">", "\n", "a", "\n", "$">>}

CaptureResults == {Captured(c) : c \in Panes} \cup {CaptureFailed}

\* the baselines cc_send passes: capture_pane(..).unwrap_or_default()
Baselines == {<<>>, <<">">>}

\* u64::to_string: the decimal digits of n
DecimalDigits == <<"0", "1", "2", "3", "4", "5", "6", "7", "8", "9">>
RECURSIVE to_string(_)
to_string(n) ==
    IF n < 10 THEN <<DecimalDigits[n + 1]>>
    ELSE to_string(n \div 10) \o <<DecimalDigits[(n % 10) + 1]>>

\* the end of the result of a call that timed out
TimeoutMark(secs) ==
    <<"\n", "\n", "[TIMEOUT after ">> \o to_string(secs)
        \o <<"s -- output may be incomplete]">>

\* faulty variant of observe: a changed content does not reset the count
observeNoReset(prev, count, clean) ==
    IF clean = prev
    THEN [prev_content |-> prev, stable_count |-> count + 1]
    ELSE [prev_content |-> clean, stable_count |-> count]
\* the update of prev_content and stable_count by a poll that captured clean; the
\* count stays below the number of polls, far from the width of u32
observe(prev, count, clean) ==
    IF clean = prev
    THEN [prev_content |-> prev, stable_count |-> count + 1]
    ELSE [prev_content |-> clean, stable_count |-> 0]

\* the sleep before the loop
WaitStart ==
    /\ wait_at = "start"
    /\ \E late \in 0..MaxLatency : elapsed' = elapsed + InitialWait + late
    /\ wait_at' = "loop"
    /\ UNCHANGED <<timeout_secs, baseline, prev_content, stable_count, polls, wait_ret>>
    /\ UNCHANGED <<poolvars, keypoolvars, loopvars, adaptervars, splitvars, handlervars>>

\* an iteration of the loop that finds the timeout exceeded
WaitTimeOut ==
    /\ wait_at = "loop"
    /\ elapsed > timeout_secs * TicksPerSecond
    /\ \E got \in CaptureResults :
          LET current == IF got.ok THEN got.v ELSE <<>>
              response == extract_response(baseline, current)
          IN  wait_ret' = strip_ansi(response) \o TimeoutMark(timeout_secs)
    /\ wait_at' = "returned"
    /\ UNCHANGED <<timeout_secs, baseline, elapsed, prev_content, stable_count, polls>>
    /\ UNCHANGED <<poolvars, keypoolvars, loopvars, adaptervars, splitvars, handlervars>>

\* an iteration of the loop within the timeout: the sleep, the capture and the test
WaitPoll ==
    /\ wait_at = "loop"
    /\ ~(elapsed > timeout_secs * TicksPerSecond)
    /\ \E late \in 0..MaxLatency, got \in CaptureResults :
          /\ elapsed' = elapsed + PollWait + late
          /\ polls' = Append(polls, got)
          /\ IF ~got.ok
             THEN UNCHANGED <<prev_content, stable_count, wait_at, wait_ret>>
             ELSE LET clean == strip_ansi(got.v)
                      now == observe(prev_content, stable_count, clean)
                  IN  /\ prev_content' = now.prev_content
                      /\ stable_count' = now.stable_count
                      /\ IF now.stable_count >= StableNeeded /\ looks_like_prompt(clean)
                         THEN /\ wait_ret' = strip_ansi(extract_response(baseline, got.v))
                              /\ wait_at' = "returned"
                         ELSE UNCHANGED <<wait_at, wait_ret>>
    /\ UNCHANGED <<timeout_secs, baseline>>
    /\ UNCHANGED <<poolvars, keypoolvars, loopvars, adaptervars, splitvars, handlervars>>

\* a call of wait_for_completion, with the baseline and the timeout cc_send passes
InitWait ==
    /\ InitPool(<<0, 0, 0, 0>>, "claude")
    /\ adapter = FreeAdapter(providers)
    /\ InitCall
    /\ InitKeyPool(<<>>)
    /\ InitNoRun
    /\ exchange = NotSent("")
    /\ chat_ret = NoReply
    /\ InitSplitIdle
    /\ InitHandlerIdle
    /\ wait_at = "start"
    /\ timeout_secs \in 0..MaxTimeoutSecs
    /\ baseline \in Baselines
    /\ elapsed = 0
    /\ prev_content = <<>>
    /\ stable_count = 0
    /\ polls = <<>>
    /\ wait_ret = <<>>

NextWait ==
    \/ WaitStart
    \/ WaitTimeOut
    \/ WaitPoll

\* every sleep ends and every tmux command comes back
WaitFairness == WF_vars(WaitStart) /\ WF_vars(WaitTimeOut) /\ WF_vars(WaitPoll)

SpecWait == InitWait /\ [][NextWait]_vars /\ WaitFairness

\* ------------------------------------------------------- split_message
\* the texts tried have up to MaxTextChars characters
MaxTextChars == 4
\* the values of max_len tried are 1..MaxMaxLen
MaxMaxLen == 5
\* the loop is followed as long as chunks holds fewer than MaxChunks chunks
MaxChunks == 6

\* a letter, the space, the line feed, and characters of 2 and 4 bytes
SplitChars == {"a", " ", "\n", "U+00E9", "U+1F600"}

SplitTexts == UNION {[1..n -> SplitChars] : n \in 0..MaxTextChars}

\* the number of characters of str that end at or before byte b
CharsUpTo(str, b) == Max({k \in 0..Len(str) : len(SubSeq(str, 1, k)) <= b})

\* str::is_char_boundary
is_char_boundary(str, i) == \E k \in 0..Len(str) : len(SubSeq(str, 1, k)) = i

\* &str[..b] and &str[b..] for a char boundary b
SliceTo(str, b) == SubSeq(str, 1, CharsUpTo(str, b))
SliceFrom(str, b) == Drop(str, CharsUpTo(str, b))

\* the loop of floor_char_boundary
RECURSIVE StepBack(_, _)
StepBack(str, i) ==
    IF i > 0 /\ ~is_char_boundary(str, i) THEN StepBack(str, i - 1) ELSE i

floor_char_boundary(str, pos) ==
    IF pos >= len(str) THEN len(str) ELSE StepBack(str, pos)

\* str::rfind(char): the byte index of the last c of str
rfind(str, c) ==
    LET hits == {k \in 1..Len(str) : str[k] = c}
    IN  IF hits = {} THEN [some |-> FALSE, v |-> 0]
        ELSE [some |-> TRUE, v |-> len(SubSeq(str, 1, Max(hits) - 1))]

\* str::trim_start
trim_start(str) ==
    LET solid == {i \in 1..Len(str) : str[i] \notin WhiteSpace}
    IN  IF solid = {} THEN <<>> ELSE Drop(str, Min(solid) - 1)

\* Option::unwrap_or
unwrap_or(o, default) == IF o.some THEN o.v ELSE default

\* split_message is called with a text and a max_len >= 1
SplitCall ==
    /\ split_pc = "idle"
    /\ split_text' \in SplitTexts
    /\ max_len' \in 1..MaxMaxLen
    /\ split_pc' = "entry"
    /\ UNCHANGED <<remaining, chunks>>
    /\ UNCHANGED <<poolvars, keypoolvars, loopvars, adaptervars, waitvars, handlervars>>

\* a text that fits is returned whole
SplitWhole ==
    /\ split_pc = "entry"
    /\ len(split_text) <= max_len
    /\ chunks' = <<split_text>>
    /\ split_pc' = "returned"
    /\ UNCHANGED <<split_text, max_len, remaining>>
    /\ UNCHANGED <<poolvars, keypoolvars, loopvars, adaptervars, waitvars, handlervars>>

\* a longer text enters the loop
SplitEnter ==
    /\ split_pc = "entry"
    /\ ~(len(split_text) <= max_len)
    /\ remaining' = split_text
    /\ chunks' = <<>>
    /\ split_pc' = "loop"
    /\ UNCHANGED <<split_text, max_len>>
    /\ UNCHANGED <<poolvars, keypoolvars, loopvars, adaptervars, waitvars, handlervars>>

\* the iteration that finds the rest fitting: it is pushed and the loop is left
SplitLast ==
    /\ split_pc = "loop"
    /\ remaining # <<>>
    /\ len(remaining) <= max_len
    /\ chunks' = Append(chunks, remaining)
    /\ split_pc' = "returned"
    /\ UNCHANGED <<split_text, max_len, remaining>>
    /\ UNCHANGED <<poolvars, keypoolvars, loopvars, adaptervars, waitvars, handlervars>>

\* an iteration that cuts a chunk off the rest, each `let` of the body bound in turn;
\* the loop is left when nothing remains
SplitCut ==
    /\ split_pc = "loop"
    /\ remaining # <<>>
    /\ ~(len(remaining) <= max_len)
    /\ Len(chunks) < MaxChunks
    /\ \E safe_end \in {floor_char_boundary(remaining, max_len)} :
       \E search_zone \in {SliceTo(remaining, safe_end)} :
       \E found \in {IF rfind(search_zone, "\n").some THEN rfind(search_zone, "\n").v
                     ELSE unwrap_or(rfind(search_zone, " "), safe_end)} :
       \E split_at \in {IF found = 0 THEN safe_end ELSE found} :
       \E rest \in {trim_start(SliceFrom(remaining, split_at))} :
          /\ chunks' = Append(chunks, SliceTo(remaining, split_at))
          /\ remaining' = rest
          /\ split_pc' = IF rest = <<>> THEN "returned" ELSE "loop"
    /\ UNCHANGED <<split_text, max_len>>
    /\ UNCHANGED <<poolvars, keypoolvars, loopvars, adaptervars, waitvars, handlervars>>

\* before a call of split_message
InitSplit ==
    /\ InitPool(<<0, 0, 0, 0>>, "claude")
    /\ adapter = FreeAdapter(providers)
    /\ InitCall
    /\ InitKeyPool(<<>>)
    /\ InitNoRun
    /\ exchange = NotSent("")
    /\ chat_ret = NoReply
    /\ InitWaitIdle
    /\ InitHandlerIdle
    /\ InitSplitIdle

NextSplit ==
    \/ SplitCall
    \/ SplitWhole
    \/ SplitEnter
    \/ SplitLast
    \/ SplitCut

\* the function runs on: each of its steps is taken when it can be
SplitFairness ==
    /\ WF_vars(SplitCall)
    /\ WF_vars(SplitWhole) /\ WF_vars(SplitEnter) /\ WF_vars(SplitLast) /\ WF_vars(SplitCut)

SpecSplit == InitSplit /\ [][NextSplit]_vars /\ SplitFairness

\* ------------------------------------------------------- handle_message
\* the updates followed
MaxUpdates == 3
\* the user ids that occur are 1..MaxUserId; 0 stands in for a missing sender
MaxUserId == 3

\* config.allowed_users: nobody listed, one or two users listed, the id 0 listed
AllowedLists == {<<>>, <<1>>, <<1, 2>>, <<0, 2>>}

\* msg.from, reduced to the id of the user: None or Some(id)
Senders == {[some |-> FALSE, v |-> 0]} \cup {[some |-> TRUE, v |-> u] : u \in 1..MaxUserId}

\* msg.text(): None, the empty text, commands, a plain text, a text with a provider
MessageTexts ==
    {[some |-> FALSE, v |-> <<>>]} \cup
    {[some |-> TRUE, v |-> t] :
        t \in {<<>>, <<"/new">>, <<"/help">>, <<"hello">>, <<"use claude ", "hello">>}}

Updates == [from : Senders, text : MessageTexts]

\* what a run of the agent gives the handler: Err, or Ok with the cleaned response
RunResults == {[ok |-> FALSE, cleaned |-> <<>>]} \cup
              {[ok |-> TRUE, cleaned |-> c] : c \in {<<>>, <<"answer">>}}

\* msg.from.as_ref().map(|u| u.id.0).unwrap_or(0)
UserIdOf(from) == IF from.some THEN from.v ELSE 0

\* Vec::contains
contains(list, x) == \E i \in 1..Len(list) : list[i] = x

\* faulty variant of Unauthorized: an update without sender passes the check
UnauthorizedSenderOnly(allowed, from) ==
    /\ from.some
    /\ allowed # <<>>
    /\ ~contains(allowed, UserIdOf(from))
\* the auth check of handle_message
Unauthorized(allowed, from) ==
    /\ ~(allowed = <<>>)
    /\ ~contains(allowed, UserIdOf(from))

\* text.starts_with('/'), on the texts that occur
IsCommand(t) == t # <<>> /\ t[1] \in {"/new", "/help"}

\* parse_provider_override: the user text without a leading "use <provider> "
UserText(t) ==
    IF Len(t) >= 2 /\ t[1] = "use claude " THEN Tail(t) ELSE t

\* a row of the messages table: the session of a user, the role and the content
Row(user_id, role, content) == [user |-> user_id, role |-> role, content |-> content]

\* handle_command: /new clears the session of the user, every command answers
HandleCommand(user_id, t, send_ok) ==
    /\ commands' = commands + 1
    /\ db' = IF t[1] = "/new" THEN SelectSeq(db, LAMBDA row : row.user # user_id) ELSE db
    /\ sent' = IF ~send_ok THEN sent
               ELSE IF t[1] = "/new"
               THEN Append(sent, "Session cleared. Starting fresh conversation.")
               ELSE Append(sent, "/help")
    /\ UNCHANGED agent_runs

\* handle_message for one update; send_ok says whether the first send_message of the
\* path taken succeeds, res is what the agent run returns if one is started
HandleMessage(upd, send_ok, res) ==
    /\ Len(handled) < MaxUpdates
    /\ handled' = Append(handled, upd)
    /\ LET user_id == UserIdOf(upd.from)
       IN  IF Unauthorized(allowed_users, upd.from)
           THEN /\ sent' = IF send_ok THEN Append(sent, "Unauthorized.") ELSE sent
                /\ UNCHANGED <<db, agent_runs, commands>>
           ELSE IF ~upd.text.some \/ upd.text.v = <<>>
           THEN UNCHANGED <<sent, db, agent_runs, commands>>
           ELSE IF IsCommand(upd.text.v)
           THEN HandleCommand(user_id, upd.text.v, send_ok)
           ELSE IF ~send_ok
           THEN UNCHANGED <<sent, db, agent_runs, commands>>
           ELSE /\ agent_runs' = agent_runs + 1
                /\ UNCHANGED commands
                /\ IF res.ok
                   THEN /\ db' = db \o <<Row(user_id, "user", UserText(upd.text.v)),
                                         Row(user_id, "assistant", res.cleaned)>>
                        /\ sent' = sent \o <<"progress", "response">>
                   ELSE /\ db' = Append(db, Row(user_id, "user", UserText(upd.text.v)))
                        /\ sent' = sent \o <<"progress", "error">>
    /\ UNCHANGED allowed_users
    /\ UNCHANGED <<poolvars, keypoolvars, loopvars, adaptervars, waitvars, splitvars>>

\* the bot after start-up, with its list of allowed users
InitHandler ==
    /\ InitPool(<<0, 0, 0, 0>>, "claude")
    /\ adapter = FreeAdapter(providers)
    /\ InitCall
    /\ InitKeyPool(<<>>)
    /\ InitNoRun
    /\ exchange = NotSent("")
    /\ chat_ret = NoReply
    /\ InitWaitIdle
    /\ InitSplitIdle
    /\ allowed_users \in AllowedLists
    /\ handled = <<>>
    /\ sent = <<>>
    /\ db = <<>>
    /\ agent_runs = 0
    /\ commands = 0

NextHandler ==
    \E upd \in Updates, send_ok \in BOOLEAN, res \in RunResults :
        HandleMessage(upd, send_ok, res)

SpecHandler == InitHandler /\ [][NextHandler]_vars

\* ------------------------------------------------------- reading the log
\* the adapter calls chat itself made (not the fast path of chat_with_provider)
ChatLog == SelectSeq(log, LAMBDA e : ~e.fast)

\* the providers of the adapter calls chat has begun: those replied to, then the one in flight
ChatProvs ==
    [i \in 1..Len(ChatLog) |-> ChatLog[i].prov]
        \o (IF pc = "await" /\ ~cur.fast THEN <<cur.prov>> ELSE <<>>)

\* the number of adapter calls on the provider of call i, up to and including call i
TriesUpTo(i) == Cardinality({j \in 1..i : ChatLog[j].prov = ChatLog[i].prov})

\* where provider p stands in the visit order
OrderPos(p) == CHOOSE i \in 1..Len(provider_order) : provider_order[i] = p

RECURSIVE SumKeysTo(_)
SumKeysTo(n) == IF n = 0 THEN 0 ELSE providers[n].keys + SumKeysTo(n - 1)
SumKeys == SumKeysTo(Len(providers))

\* after call i, chat goes on with the provider after p in the visit order, or returns
\* if p is the last one
MovesOn(i, p) ==
    IF OrderPos(p) < Len(provider_order)
    THEN i + 1 <= Len(ChatProvs) /\ ChatProvs[i + 1] = provider_order[OrderPos(p) + 1]
    ELSE i = Len(ChatProvs) /\ pc = "done"

\* ------------------------------------------------------------------ claims
\* C1: chat stops at the first successful adapter call: a successful call is the last
\* call of its chat, chat has returned, and what it returned is that call's response
\* with the name of the provider that was called; chat returns success in no other way.
C1_FirstSuccessReturns ==
    /\ \A i \in 1..Len(ChatLog) :
         ChatLog[i].kind = "Ok" =>
            /\ i = Len(ChatProvs)
            /\ pc = "done"
            /\ result.kind = "Ok"
            /\ result.response = ChatLog[i].resp
            /\ result.provider = providers[ChatLog[i].prov].name
    /\ (op.kind = "chat" /\ result.kind = "Ok") =>
            (Len(log) > 0 /\ log[Len(log)].kind = "Ok")

\* a first call that succeeds while a second key of that provider and a second
\* provider are left untried
C1_Witness ==
    /\ op.kind = "chat" /\ pc = "done" /\ result.kind = "Ok"
    /\ Len(log) = 1
    /\ providers[log[1].prov].keys = 2
    /\ Len(providers) = 2

\* C2: a rate-limited call is followed by a call on the same provider while the
\* provider has had fewer calls than it has keys; after the keyCount-th rate-limited
\* call (never more) the next provider of the visit order is called, or chat returns.
C2_RateLimitRotatesKeys ==
    \A i \in 1..Len(ChatLog) :
        ChatLog[i].kind = "RateLimited" =>
            IF TriesUpTo(i) < providers[ChatLog[i].prov].keys
            THEN i + 1 <= Len(ChatProvs) /\ ChatProvs[i + 1] = ChatLog[i].prov
            ELSE /\ TriesUpTo(i) = providers[ChatLog[i].prov].keys
                 /\ MovesOn(i, ChatLog[i].prov)

\* providers [A(2 keys), B(1 key)], default A: both calls on A rate limited, then B
\* succeeds, on the third call
C2_Witness ==
    /\ op.kind = "chat" /\ pc = "done"
    /\ Len(providers) = 2
    /\ providers[default_idx].keys = 2
    /\ Len(log) = 3
    /\ log[1].kind = "RateLimited" /\ log[1].prov = default_idx
    /\ log[2].kind = "RateLimited" /\ log[2].prov = default_idx
    /\ log[3].kind = "Ok" /\ log[3].prov # default_idx
    /\ result.kind = "Ok" /\ result.provider = providers[log[3].prov].name

\* C3: after a call that returns AuthError or any other error than RateLimited, chat
\* makes no further call on that provider and goes on with the next provider of the
\* visit order (or returns, after the last one).
C3_OtherErrorsAbandonProvider ==
    \A i \in 1..Len(ChatLog) :
        ChatLog[i].kind \in ErrorKinds \ {"RateLimited"} =>
            /\ \A j \in (i + 1)..Len(ChatProvs) : ChatProvs[j] # ChatLog[i].prov
            /\ MovesOn(i, ChatLog[i].prov)

\* the first call, on a provider with two keys, returns AuthError; the second call is
\* on the other provider
C3_Witness ==
    /\ op.kind = "chat"
    /\ Len(log) >= 2
    /\ log[1].kind = "AuthError"
    /\ providers[log[1].prov].keys = 2
    /\ log[2].prov # log[1].prov

\* a provider is exhausted: it was called, and either all its calls, as many as it has
\* keys, were rate limited, or one of them returned another error
Exhausted(p) ==
    LET E == {i \in 1..Len(ChatLog) : ChatLog[i].prov = p}
    IN  /\ E # {}
        /\ \/ /\ \A i \in E : ChatLog[i].kind = "RateLimited"
              /\ Cardinality(E) = providers[p].keys
           \/ \E i \in E : ChatLog[i].kind \in ErrorKinds \ {"RateLimited"}

\* C4: a chat on a non-empty pool that has returned has returned either success or
\* RequestError("All providers failed"); the error exactly when no call succeeded, and
\* then every configured provider is exhausted.
C4_TerminalErrorIffExhausted ==
    (pc = "done" /\ op.kind = "chat" /\ Len(providers) > 0) =>
        /\ result.kind \in {"Ok", "RequestError"}
        /\ (result.kind = "RequestError" /\ result.detail = "All providers failed")
              <=> (\A i \in 1..Len(log) : log[i].kind # "Ok")
        /\ result.kind = "RequestError" =>
              \A p \in 1..Len(providers) : Exhausted(p)

\* the terminal error after one provider used up its two keys on rate limits and the
\* other returned AuthError
C4_Witness ==
    /\ pc = "done" /\ op.kind = "chat"
    /\ result.kind = "RequestError"
    /\ Len(providers) = 2
    /\ \E p \in 1..2 : providers[p].keys = 2 /\ \A i \in 1..Len(log) : log[i].prov = p => log[i].kind = "RateLimited"
    /\ \E i \in 1..Len(log) : log[i].kind = "AuthError"

\* C5: one chat makes at most keyCount(p) adapter calls on each provider p, and at most
\* the sum of the keyCounts in all, the call in flight included.
C5_AttemptsBounded ==
    /\ \A p \in 1..Len(providers) : Count(ChatProvs, p) <= providers[p].keys
    /\ Len(ChatProvs) <= SumKeys

\* a chat that used every key of a pool of two providers and three keys, and failed
C5_Witness ==
    /\ pc = "done" /\ op.kind = "chat"
    /\ Len(providers) = 2 /\ SumKeys = 3
    /\ Len(log) = 3
    /\ result.kind = "RequestError"

\* every credential of provider p is valid or out of quota, and one at least is valid
Usable(p) ==
    /\ \A k \in 1..providers[p].keys : adapter[p][k] \in {{"Ok"}, {"RateLimited"}}
    /\ \E k \in 1..providers[p].keys : adapter[p][k] = {"Ok"}

\* C6: a chat that has reached a provider whose keys each either succeed or are rate
\* limited, one at least succeeding, returns success from that provider, also while
\* other calls draw keys from the same key pool.
C6_UsableProviderSucceeds ==
    \A p \in 1..Len(providers) :
        (pc = "done" /\ op.kind = "chat" /\ Usable(p) /\ Count(ChatProvs, p) > 0) =>
            (result.kind = "Ok" /\ result.provider = providers[p].name)

\* the key a next_key call that fetched cursor value c on entry p returned
KeyOf(p, c) == KeyIdx(c, providers[p].keys)

\* C7: of N+1 consecutive next_key calls on a pool of N keys, the first N return N
\* different keys, each call returns the cyclic successor of the key before, and the
\* (N+1)-th returns the key of the first.
C7_RoundRobin ==
    \A p \in 1..Len(providers) :
        LET n == providers[p].keys
            s == seen[p]
        IN  Len(s) = n + 1 =>
              /\ \A i, j \in 1..n : i # j => KeyOf(p, s[i]) # KeyOf(p, s[j])
              /\ \A i \in 1..n : KeyOf(p, s[i + 1]) = (KeyOf(p, s[i]) + 1) % n
              /\ KeyOf(p, s[n + 1]) = KeyOf(p, s[1])

\* the cursor values fetched on entry p are consecutive, the cursor stands one after the
\* last value fetched, and after k calls in all (k <= N, none yet dropped from the
\* history) the calls fetched 0, 1, .., k-1 and the cursor stands at 0 + k
CursorCounts(p) ==
    LET s == seen[p]
    IN  /\ \A i \in 1..(Len(s) - 1) : s[i + 1] = (s[i] + 1) % (2 ^ CursorBits)
        /\ index[p] = IF s = <<>> THEN 0 ELSE (s[Len(s)] + 1) % (2 ^ CursorBits)
        /\ Len(s) <= providers[p].keys =>
              /\ \A i \in 1..Len(s) : s[i] = (i - 1) % (2 ^ CursorBits)
              /\ index[p] = Len(s) % (2 ^ CursorBits)

\* C8: under every interleaving of the next_key calls of the chat followed and of other
\* runs, the calls on one pool fetch distinct consecutive cursor values and no increment
\* is lost; no step changes anything of the pool other than a cursor.
C8_AtomicCursor ==
    /\ [](\A p \in 1..Len(providers) : CursorCounts(p))
    /\ [][providers' = providers /\ default_idx' = default_idx]_vars

\* three next_key calls on a pool of three keys, one of them by the chat in flight, the
\* others by other runs
C8_Witness ==
    \E p \in 1..Len(providers) :
        /\ providers[p].keys = 3
        /\ seen[p] = <<0, 1, 2>>
        /\ pc = "await" /\ cur.prov = p /\ cur.key = 1 /\ log = <<>>

\* C9: the visit order holds every configured provider exactly once, the default first
\* and the others after it in configuration order, and the calls of one chat follow it:
\* chat never comes back to a provider it has left.
C9_VisitOrderPermutation ==
    Len(providers) > 0 =>
        /\ Len(provider_order) = Len(providers)
        /\ provider_order[1] = default_idx
        /\ \A p \in 1..Len(providers) :
              Cardinality({i \in 1..Len(provider_order) : provider_order[i] = p}) = 1
        /\ \A i, j \in 2..Len(provider_order) :
              i < j => provider_order[i] < provider_order[j]
        /\ \A i, j \in 1..Len(ChatProvs) :
              i < j => OrderPos(ChatProvs[i]) <= OrderPos(ChatProvs[j])

\* three providers, the third the default: a chat that failed on all has called them in
\* the order third, first, second
C9_Witness ==
    /\ Len(providers) = 3 /\ default_idx = 3
    /\ pc = "done" /\ op.kind = "chat"
    /\ [i \in 1..Len(log) |-> log[i].prov] = <<3, 1, 2>>

\* the adapter calls begun by the call followed, the fast path included
CallsBegun == Len(log) + (IF pc = "await" THEN 1 ELSE 0)

\* C10: chat_with_provider with the name of a configured provider first makes one
\* adapter call on that provider, and no second fast-path call; when it succeeds the
\* call returns its response under the given name and nothing else is called; when it
\* fails in any way the chat algorithm runs from the first provider of the visit order
\* with its own bounds, so that at most 1 + sum of keyCounts calls are made.
C10_FastPathThenChat ==
    op.kind = "chat_with_provider" =>
        /\ \A i \in 1..Len(log) :
              log[i].fast => (i = 1 /\ log[i].prov \in Position(providers, op.name))
        /\ (pc = "await" /\ cur.fast) =>
              (log = <<>> /\ cur.prov \in Position(providers, op.name))
        /\ Position(providers, op.name) # {} =>
              IF log = <<>> THEN pc = "await" /\ cur.fast ELSE log[1].fast
        /\ (log # <<>> /\ log[1].fast /\ log[1].kind = "Ok") =>
              /\ pc = "done" /\ Len(log) = 1
              /\ result.kind = "Ok"
              /\ result.response = log[1].resp
              /\ result.provider = op.name
        /\ (log # <<>> /\ log[1].fast /\ log[1].kind # "Ok") =>
              /\ Len(ChatProvs) >= 1 /\ ChatProvs[1] = provider_order[1]
              /\ \A p \in 1..Len(providers) : Count(ChatProvs, p) <= providers[p].keys
              /\ pc = "done" =>
                    \/ /\ result.kind = "Ok"
                       /\ log[Len(log)].kind = "Ok" /\ ~log[Len(log)].fast
                       /\ result.provider = providers[log[Len(log)].prov].name
                    \/ /\ result.kind = "RequestError"
                       /\ \A p \in 1..Len(providers) : Exhausted(p)
        /\ CallsBegun <= 1 + SumKeys

\* the named provider has two keys, its fast-path call is rate limited, and the chat
\* that follows uses every key of the pool: 1 + 3 calls
C10_Witness ==
    /\ op.kind = "chat_with_provider" /\ pc = "done"
    /\ Len(log) = 4 /\ SumKeys = 3
    /\ log[1].fast /\ log[1].kind = "RateLimited"
    /\ providers[log[1].prov].keys = 2

\* where entry p stands when the default comes first and the others follow in
\* configuration order
DefaultFirstPos(p) ==
    IF p = default_idx THEN 1 ELSE IF p < default_idx THEN p + 1 ELSE p

\* C11: the adapter calls of the fallback leg of chat_with_provider start with the default
\* provider and go on default first, the others in configuration order, every provider
\* in turn; the provider asked for, whose fast-path call failed, is called again only
\* where it stands in that order.
C11_FallbackKeepsOrder ==
    op.kind = "chat_with_provider" =>
        /\ Len(ChatProvs) > 0 => DefaultFirstPos(ChatProvs[1]) = 1
        /\ \A i \in 2..Len(ChatProvs) :
              DefaultFirstPos(ChatProvs[i]) \in
                  {DefaultFirstPos(ChatProvs[i - 1]), DefaultFirstPos(ChatProvs[i - 1]) + 1}
        /\ (log # <<>> /\ log[1].fast /\ log[1].kind # "Ok") =>
              \A i \in 1..Len(ChatProvs) :
                  ChatProvs[i] = log[1].prov =>
                      Cardinality({ChatProvs[j] : j \in 1..i}) = DefaultFirstPos(log[1].prov)

\* three providers, the first the default; the fast-path call on the third fails, and the
\* fallback leg calls the first, the second and only then the third
C11_Witness ==
    /\ op.kind = "chat_with_provider" /\ pc = "done"
    /\ Len(providers) = 3 /\ default_idx = 1
    /\ Len(log) = 4
    /\ [i \in 1..4 |-> log[i].prov] = <<3, 1, 2, 3>>
    /\ log[1].fast /\ log[1].kind = "AuthError"

\* C12: the pool has one entry for each backend that was configured with keys, with as
\* many keys, and none for a backend configured without; no entry has an empty key
\* pool; available_providers is the list of the backends configured with keys, in the
\* order claude, gemini, groq, mistral, in every state the chat calls lead to.
C12_EntriesHaveKeys ==
    LET configured == SelectSeq(<<1, 2, 3, 4>>, LAMBDA b : config.keys[b] > 0)
    IN  /\ \A b \in 1..4 :
              Cardinality({p \in 1..Len(providers) : providers[p].name = Backends[b]})
                  = IF config.keys[b] > 0 THEN 1 ELSE 0
        /\ \A p \in 1..Len(providers) :
              /\ providers[p].keys >= 1
              /\ \E b \in 1..4 :
                    providers[p].name = Backends[b] /\ providers[p].keys = config.keys[b]
        /\ available_providers = [i \in 1..Len(configured) |-> Backends[configured[i]]]

\* gemini and mistral are configured, the default is mistral: after a chat that called
\* mistral first and then gemini, available_providers still lists gemini before mistral
C12_Witness ==
    /\ config.keys = <<0, 1, 0, 2>> /\ config.default_provider = "mistral"
    /\ pc = "done" /\ op.kind = "chat" /\ Len(log) = 3
    /\ log[1].prov = 2 /\ log[3].prov = 1
    /\ available_providers = <<"gemini", "mistral">>

\* C13: a next_key call on a key rotator whose key list is empty returns None and leaves
\* the cursor where it was, at 0; no step changes the key list of a rotator, nor the
\* length of the key list of a pool entry.
C13_EmptyPoolNoneAndKeysFixed ==
    /\ []((kp_keys = <<>> /\ kp_ret.called) => (kp_ret.ret = None /\ kp_index = 0))
    /\ [][/\ kp_keys = <<>> => (kp_ret'.ret = None /\ kp_index' = kp_index)
          /\ kp_keys' = kp_keys
          /\ providers' = providers]_vars

\* next_key has been called on a rotator made from the empty key list
C13_Witness ==
    /\ kp_keys = <<>>
    /\ kp_ret.called

\* C14: on a pool without any provider a call of chat, or of chat_with_provider with
\* whatever name, has returned as soon as it is made, with the error NoKeys and not
\* the error of exhaustion, and no adapter call and no key draw was made for it.
C14_EmptyPoolNoKeys ==
    (Len(providers) = 0 /\ op.kind \in {"chat", "chat_with_provider"}) =>
        /\ pc = "done"
        /\ result.kind = "NoKeys" /\ result.detail = ""
        /\ log = <<>>
        /\ cur = NoAttempt
        /\ index = <<>>

\* chat_with_provider("claude") has returned on a pool made without any key
C14_Witness ==
    /\ config.keys = <<0, 0, 0, 0>>
    /\ op = [kind |-> "chat_with_provider", name |-> "claude"]
    /\ pc = "done"

\* ------------------------------------------------- reading the transcript
\* the positions of the assistant messages that carry tool calls
CallPositions == {i \in 1..Len(messages) : messages[i].type = "AssistantWithToolCalls"}

\* the position of the first Assistant message after position i, or one past the end
NextAssistant(i) ==
    Min({j \in (i + 1)..Len(messages) : messages[j].role = "Assistant"} \cup {Len(messages) + 1})

\* the run stands between two turns, at a model call, or has returned
AtTurnBoundary == at \in {"turn", "model", "returned"}

\* C15 as stated: at a model call and at the return of the run, each tool call of an
\* assistant message has, among the messages up to the next assistant message, exactly
\* one ToolResult that carries its tool_call_id.
C15_OneResultPerCallId ==
    AtTurnBoundary =>
        \A i \in CallPositions : \A k \in 1..Len(messages[i].tool_calls) :
            Cardinality({j \in (i + 1)..(NextAssistant(i) - 1) :
                            /\ messages[j].type = "ToolResult"
                            /\ messages[j].tool_call_id = messages[i].tool_calls[k].id}) = 1

\* C15 amended: the messages from an assistant message with n tool calls to the next
\* assistant message are n ToolResults, the k-th carrying the id and the name of the
\* k-th call, at every model call and at the return of the run; while the tools of a
\* turn are executed the results of the calls before the one in flight are there.
C15_OneResultPerCall ==
    \A i \in CallPositions :
        LET calls == messages[i].tool_calls
            done == IF AtTurnBoundary \/ i < Max(CallPositions) THEN Len(calls) ELSE tc - 1
        IN  /\ NextAssistant(i) = i + done + 1
            /\ NextAssistant(i) <= Len(messages) \/ Len(messages) = i + done
            /\ \A k \in 1..done :
                  /\ messages[i + k].type = "ToolResult"
                  /\ messages[i + k].role = "Tool"
                  /\ messages[i + k].tool_call_id = calls[k].id
                  /\ messages[i + k].name = calls[k].name

\* a run of two turns that has used up its turns: the first turn had two tool calls with
\* different ids, the second one call that used the first id again
C15_Witness ==
    /\ at = "returned" /\ outcome.kind = "Ok" /\ max_turns = 2 /\ turn = 2
    /\ history = <<>>
    /\ Len(messages) = 7
    /\ Len(messages[3].tool_calls) = 2 /\ Len(messages[6].tool_calls) = 1
    /\ messages[3].tool_calls[1].id = "call_a" /\ messages[3].tool_calls[2].id = "call_b"
    /\ messages[6].tool_calls[1].id = "call_a"
    /\ messages[7].tool_call_id = "call_a"

\* what the run did, restricted to the events of the kinds in evs
TraceOf(evs) == SelectSeq(trace, LAMBDA e : e.ev \in evs)

\* the assistant message with tool calls of turn t (0-based): every turn before the
\* current one pushed exactly one
CallPositionOfTurn(t) ==
    CHOOSE i \in CallPositions : Cardinality({j \in CallPositions : j < i}) = t

\* C16: a tool is started only when the tool started before it has returned; the tools
\* started in a turn are the tool calls of the assistant message of that turn, from the
\* first on in the order of the message, and the ToolResult messages stand after the
\* assistant message in that same order.
C16_ToolsInOrder ==
    LET runs == TraceOf({"execute", "tool_result"})
        started == TraceOf({"execute"})
    IN  /\ \A n \in 1..Len(runs) :
              IF n % 2 = 1
              THEN runs[n].ev = "execute"
              ELSE /\ runs[n].ev = "tool_result"
                   /\ runs[n].id = runs[n - 1].id /\ runs[n].name = runs[n - 1].name
        /\ Len(runs) % 2 = 1 <=> at = "tool"
        /\ \A n \in 1..Len(started) :
              LET t == started[n].turn
                  k == Cardinality({m \in 1..n : started[m].turn = t})
              IN  /\ Cardinality(CallPositions) > t
                  /\ k <= Len(messages[CallPositionOfTurn(t)].tool_calls)
                  /\ started[n].id = messages[CallPositionOfTurn(t)].tool_calls[k].id
                  /\ started[n].name = messages[CallPositionOfTurn(t)].tool_calls[k].name
                  /\ (n < Len(started) \/ at # "tool") =>
                        /\ messages[CallPositionOfTurn(t) + k].type = "ToolResult"
                        /\ messages[CallPositionOfTurn(t) + k].tool_call_id = started[n].id
                        /\ messages[CallPositionOfTurn(t) + k].name = started[n].name
        /\ \A m, n \in 1..Len(started) : m < n => started[m].turn <= started[n].turn

\* the model asked for web_search and then no_such_tool in one turn; both have been
\* executed and the run stands before its second turn
C16_Witness ==
    /\ at = "turn" /\ turn = 1
    /\ Len(TraceOf({"execute"})) = 2
    /\ TraceOf({"execute"})[1].name = "web_search" /\ TraceOf({"execute"})[1].id = "call_b"
    /\ TraceOf({"execute"})[2].name = "no_such_tool" /\ TraceOf({"execute"})[2].id = "call_a"
    /\ messages[Len(messages) - 1].name = "web_search"
    /\ messages[Len(messages)].name = "no_such_tool"

\* the last thing the run did was ev
LastEvent(ev) == trace # <<>> /\ trace[Len(trace)].ev = ev

\* the run has returned the answer of a model call that asked for no tool
ReturnedFinal == at = "returned" /\ outcome.kind = "Ok" /\ LastEvent("model_call")

\* the number of times a tool of this name was invoked during the run
Invocations(name) ==
    Cardinality({n \in 1..Len(trace) : trace[n].ev = "execute" /\ trace[n].name = name})

\* C17: a run that has returned the answer of a model call without tool calls, after k
\* turns with tool calls, has k < max_turns, reports k + 1 turns and has made k + 1 model
\* calls; each tool name invoked is reported once, with the number of its invocations,
\* and no other name is; with k = 0 it reports 1 turn and no tool.
C17_FinalAnswerTurnsAndCounts ==
    ReturnedFinal =>
        LET k == Cardinality(CallPositions)
            r == outcome.result
        IN  /\ k < max_turns
            /\ r.turns = k + 1
            /\ Len(TraceOf({"model_call"})) = k + 1
            /\ Len(r.tools_count) = Len(r.tools_used)
            /\ \A name \in ToolNames :
                  Cardinality({i \in 1..Len(r.tools_used) : r.tools_used[i] = name})
                      = IF Invocations(name) > 0 THEN 1 ELSE 0
            /\ \A i \in 1..Len(r.tools_used) : r.tools_count[i] = Invocations(r.tools_used[i])
            /\ k = 0 => (r.turns = 1 /\ r.tools_used = <<>> /\ r.tools_count = <<>>)

\* two turns with tool calls, web_search invoked twice and no_such_tool once, then the
\* answer: 3 turns, counts 1 and 2
C17_Witness ==
    /\ ReturnedFinal
    /\ Cardinality(CallPositions) = 2
    /\ outcome.result.turns = 3
    /\ outcome.result.tools_used = <<"no_such_tool", "web_search">>
    /\ outcome.result.tools_count = <<1, 2>>
    /\ outcome.result.response = <<"t1">>

\* the run has returned because it found the cancel flag set at the start of a turn
ReturnedCancelled == at = "returned" /\ outcome.kind = "Ok" /\ LastEvent("load_cancel")

\* C18: a run that stands between turn k and turn k + 1 (k >= 1, turns left) with the
\* cancel flag set returns in its next step, successfully and without a model call; a
\* run that has returned so after k turns reports k turns, has made k model calls and
\* none in turn k + 1, and its response is the text of the assistant message of turn k
\* followed by the notice, or the default notice alone when that message has no text.
C18_CancelBetweenTurns ==
    /\ [](ReturnedCancelled /\ turn >= 1 =>
            LET said == messages[Max(CallPositions)].text
                r == outcome.result
            IN  /\ Cardinality(CallPositions) = turn
                /\ Max(CallPositions) = Max(AssistantPositions(messages))
                /\ r.turns = turn
                /\ Len(TraceOf({"model_call"})) = turn
                /\ \A n \in 1..Len(trace) : trace[n].ev = "model_call" => trace[n].turn < turn
                /\ r.response = IF said.some /\ said.v # <<>>
                                THEN said.v \o <<"\n\n_-- Query da bi dung._">>
                                ELSE <<"Query da bi dung.">>)
    /\ [][(at = "turn" /\ cancel_flag /\ turn >= 1 /\ turn < max_turns) =>
             /\ at' = "returned"
             /\ outcome'.kind = "Ok"
             /\ trace' = Append(trace, Event("load_cancel", turn, "", ""))
             /\ messages' = messages]_vars

\* cancelled between turn 2 and turn 3: turn 1 said "t1", turn 2 asked for its tool
\* without a text, the run of 3 turns returned the default notice after 2 model calls
C18_Witness ==
    /\ ReturnedCancelled
    /\ turn = 2 /\ max_turns = 3
    /\ Cardinality(CallPositions) = 2
    /\ messages[Min(CallPositions)].text = SomeString(<<"t1">>)
    /\ messages[Max(CallPositions)].text = NoString
    /\ outcome.result.response = CancelDefault
    /\ outcome.result.turns = 2

\* C19: while a model call or a tool call is in flight the cancel flag changes nothing:
\* with the flag set, the model call returns and the run goes on as it would without
\* the flag (an answer without tool calls is returned as the normal result of turn + 1
\* turns, without a notice; tool calls are started), a tool that returns has its
\* ToolResult appended and the next tool call of the batch is started, and only after
\* the last one the run comes to the head of the next turn; no run returns as
\* cancelled from a model call or a tool call in flight.
C19_CancelOnlyAtTurnHead ==
    [][/\ (at = "model" /\ cancel_flag) =>
             /\ at' \in {"tool", "returned"}
             /\ (at' = "returned" /\ outcome'.kind = "Ok") =>
                   /\ outcome'.result.turns = turn + 1
                   /\ outcome'.result.response \in Texts \cup {<<>>}
                   /\ messages' = messages
             /\ at' = "tool" =>
                   /\ Len(messages') = Len(messages) + 1
                   /\ tc' = 1 /\ tool_calls' = messages'[Len(messages')].tool_calls
       /\ (at = "tool" /\ cancel_flag) =>
             /\ Len(messages') = Len(messages) + 1
             /\ messages'[Len(messages')].type = "ToolResult"
             /\ messages'[Len(messages')].tool_call_id = tool_calls[tc].id
             /\ IF tc < Len(tool_calls)
                THEN at' = "tool" /\ tc' = tc + 1 /\ tool_calls' = tool_calls /\ turn' = turn
                ELSE at' = "turn" /\ turn' = turn + 1
       /\ at \in {"model", "tool"} => ~(at' = "returned" /\ trace'[Len(trace')].ev = "load_cancel")
      ]_vars

\* the flag is set while the first of the two tool calls of a turn is in flight
C19_Witness ==
    /\ at = "tool" /\ cancel_flag
    /\ tc = 1 /\ Len(tool_calls) = 2
    /\ turn = 1

\* the run has returned because its turns were used up
ReturnedMaxTurns == at = "returned" /\ outcome.kind = "Ok" /\ turn >= max_turns

\* C20: a run that comes to the head of its loop with no turn left returns in its next
\* step, successfully, whether the cancel flag is set or not; a run that has returned so had tool calls in each of its
\* max_turns turns, has made max_turns model calls, reports max_turns turns, and its
\* response is the text of the last Assistant message of the transcript, empty if that
\* message has none, or the fixed message when the transcript has no Assistant message.
C20_MaxTurnsResult ==
    /\ [](ReturnedMaxTurns =>
            LET r == outcome.result
                assistants == {i \in 1..Len(messages) : messages[i].role = "Assistant"}
            IN  /\ turn = max_turns
                /\ r.turns = max_turns
                /\ Len(TraceOf({"model_call"})) = max_turns
                /\ Cardinality(CallPositions) = max_turns
                /\ r.response =
                      IF assistants = {}
                      THEN <<"Reached max processing limit. Please try again.">>
                      ELSE IF messages[Max(assistants)].text.some
                      THEN messages[Max(assistants)].text.v
                      ELSE <<>>)
    /\ [][(at = "turn" /\ turn >= max_turns /\ cancel_flag' = cancel_flag) =>
             (at' = "returned" /\ outcome'.kind = "Ok" /\ trace' = trace)]_vars

\* three turns allowed, each with a tool call, the last assistant message says "t1"
C20_Witness ==
    /\ ReturnedMaxTurns
    /\ max_turns = 3
    /\ Len(TraceOf({"model_call"})) = 3
    /\ outcome.result.turns = 3
    /\ outcome.result.response = <<"t1">>
    /\ messages[Max(CallPositions)].text = SomeString(<<"t1">>)

\* the run has returned an error
ReturnedError == at = "returned" /\ outcome.kind = "Err"

\* the texts of the errors a pool call can end with
PoolErrorTexts == {Display(ErrNoKeys), Display(ErrAllFailed)}

\* C21 as stated: a run that has returned an error returned the text of the error of
\* the pool as it is, and the failed model call is the last thing it did.
C21_PoolErrorUnchanged ==
    ReturnedError =>
        /\ LastEvent("model_call")
        /\ outcome.error \in PoolErrorTexts

\* C21 amended: the step in which a pool call returns an error is the return of the
\* run: it starts no tool, notifies nothing and pushes no message; the run that has
\* returned an error did so at its last model call, one call per turn and none
\* repeated, and its error is "LLM error: " followed by the text of the pool's error;
\* a run that has returned takes no further step.
C21_PoolErrorFailsRun ==
    /\ [](ReturnedError =>
            /\ LastEvent("model_call")
            /\ trace[Len(trace)].turn = turn
            /\ Len(TraceOf({"model_call"})) = turn + 1
            /\ Len(TraceOf({"execute"})) = Len(tools_used)
            /\ progress[Len(progress)] = [kind |-> "Thinking", name |-> ""]
            /\ \E text \in PoolErrorTexts : outcome.error = <<"LLM error: ">> \o text)
    /\ [][(at = "model" /\ at' = "returned" /\ outcome'.kind = "Err") =>
             /\ trace' = trace /\ progress' = progress
             /\ messages' = messages /\ tools_used' = tools_used]_vars
    /\ [][at = "returned" => UNCHANGED vars]_vars

\* the pool fails in the second turn, after a turn with one tool call
C21_Witness ==
    /\ ReturnedError
    /\ turn = 1 /\ max_turns = 3
    /\ Len(tools_used) = 1
    /\ outcome.error = <<"LLM error: ", "RequestError", "All providers failed">>

\* the model calls the run has made, in order
ModelCalls == TraceOf({"model_call"})

\* the number of the four ways to end that the returned run ended in
Endings ==
    Cardinality({e \in {"final", "cancelled", "max_turns", "error"} :
        \/ e = "final" /\ ReturnedFinal
        \/ e = "cancelled" /\ ReturnedCancelled
        \/ e = "max_turns" /\ ReturnedMaxTurns
        \/ e = "error" /\ ReturnedError})

\* C22: a run whose model calls and tool calls return does return; at every moment it
\* has made at most max_turns model calls, the k-th of them in turn k - 1 with
\* 0 <= k - 1 < max_turns, and a run that has returned ended in exactly one of: final
\* answer, cancellation, budget exhaustion, pool error.
C22_RunTerminates ==
    /\ [](/\ Len(ModelCalls) <= max_turns
          /\ \A k \in 1..Len(ModelCalls) :
                /\ ModelCalls[k].turn = k - 1
                /\ 0 <= ModelCalls[k].turn /\ ModelCalls[k].turn < max_turns
          /\ at = "model" => 0 <= turn /\ turn < max_turns
          /\ at = "returned" => Endings = 1)
    /\ <>(at = "returned")

\* a run of three turns that made its third and last allowed model call and returned
\* its answer
C22_Witness ==
    /\ ReturnedFinal
    /\ max_turns = 3
    /\ Len(ModelCalls) = 3
    /\ turn = 2


\* seq a is seq b or the beginning of it
IsPrefix(a, b) == Len(a) <= Len(b) /\ SubSeq(b, 1, Len(a)) = a

\* the transcript the run starts with
InitialTranscript ==
    <<[role |-> "System", type |-> "Text", text |-> SomeString(<<"system prompt">>),
       tool_calls |-> <<>>, tool_call_id |-> "", name |-> ""]>>
    \o history
    \o <<[role |-> "User", type |-> "Text", text |-> SomeString(<<"user content">>),
          tool_calls |-> <<>>, tool_call_id |-> "", name |-> ""]>>

\* C23: the transcript of a run begins with the system prompt, the history and the user
\* message, and is exactly that at the first model call; a step leaves the transcript
\* as it is or adds messages at its end; the transcript given to the model call of
\* a turn begins with the transcript given to the model call of the turn before.
C23_TranscriptAppendOnly ==
    /\ [](/\ IsPrefix(InitialTranscript, messages)
          /\ (at = "turn" /\ turn = 0) => messages = InitialTranscript
          /\ ModelCalls # <<>> => ModelCalls[1].messages = InitialTranscript
          /\ \A k \in 2..Len(ModelCalls) :
                /\ IsPrefix(ModelCalls[k - 1].messages, ModelCalls[k].messages)
                /\ Len(ModelCalls[k - 1].messages) < Len(ModelCalls[k].messages)
          /\ at = "model" => ModelCalls[Len(ModelCalls)].messages = messages)
    /\ [][IsPrefix(messages, messages')]_vars

\* the model call of the second turn of a run with a history, after a first turn with
\* two tool calls
C23_Witness ==
    /\ at = "model"
    /\ Len(ModelCalls) = 2
    /\ Len(history) = 1
    /\ Len(ModelCalls[1].messages) = 3
    /\ Len(ModelCalls[2].messages) = 6

\* the notifications of the run, in order, as the trace has them
Notified == TraceOf({"thinking", "tool_use"})

\* C24: every model call stands in the trace right after the Thinking notification of
\* its turn and every tool invocation right after the ToolUse notification of its tool
\* call, and no notification is without its call; the sink has received one Thinking
\* per model call and one ToolUse(name) per invocation, in the order of the calls; a
\* turn that ends in cancellation notifies nothing, and the cancelling step leaves
\* the sink as it is.
C24_NotifyBeforeEachCall ==
    /\ [](/\ \A n \in 1..Len(trace) :
                /\ trace[n].ev = "model_call" =>
                        n > 1 /\ trace[n - 1].ev = "thinking" /\ trace[n - 1].turn = trace[n].turn
                /\ trace[n].ev = "thinking" =>
                        n < Len(trace) /\ trace[n + 1].ev = "model_call"
                /\ trace[n].ev = "execute" =>
                        /\ n > 1 /\ trace[n - 1].ev = "tool_use"
                        /\ trace[n - 1].name = trace[n].name /\ trace[n - 1].id = trace[n].id
                        /\ trace[n - 1].turn = trace[n].turn
                /\ trace[n].ev = "tool_use" =>
                        n < Len(trace) /\ trace[n + 1].ev = "execute"
          /\ Len(progress) = Len(Notified)
          /\ Len(progress) = Len(ModelCalls) + Len(TraceOf({"execute"}))
          /\ \A i \in 1..Len(progress) :
                progress[i] = IF Notified[i].ev = "thinking"
                              THEN [kind |-> "Thinking", name |-> ""]
                              ELSE [kind |-> "ToolUse", name |-> Notified[i].name]
          /\ ReturnedCancelled =>
                \A n \in 1..Len(trace) :
                    trace[n].turn = turn => trace[n].ev = "load_cancel")
    /\ [][(at = "turn" /\ at' = "returned") => progress' = progress]_vars

\* a run cancelled at the head of its second turn, after a first turn that notified
\* Thinking and two tool uses
C24_Witness ==
    /\ ReturnedCancelled
    /\ turn = 1
    /\ Len(progress) = 3
    /\ progress[1].kind = "Thinking"
    /\ progress[2].kind = "ToolUse" /\ progress[3].kind = "ToolUse"
    /\ progress[2].name # progress[3].name

\* where a tool name stands in the byte order of the names
NameRank(name) == CHOOSE i \in 1..Len(SortedToolNames) : SortedToolNames[i] = name

\* the sum of the numbers of seq
RECURSIVE SumSeq(_)
SumSeq(seq) == IF seq = <<>> THEN 0 ELSE seq[1] + SumSeq(Tail(seq))

\* the orders in which the tool invocations of seq can be made
Reorderings(seq) ==
    {[i \in 1..Len(seq) |-> seq[p[i]]] :
        p \in {q \in [1..Len(seq) -> 1..Len(seq)] :
                    \A i, j \in 1..Len(seq) : q[i] = q[j] => i = j}}

\* C25: in the result of a run that returned successfully, tools_used holds the names
\* of the tools invoked, each once, in the byte order of the names; tools_count is as
\* long, its i-th number is the number of invocations of the i-th name and is at least
\* 1, and the numbers add up to the invocations of the run; the same invocations made
\* in any other order give the same two lists.
C25_ToolsDedupSorted ==
    (at = "returned" /\ outcome.kind = "Ok") =>
        LET r == outcome.result
        IN  /\ \A i \in 1..Len(r.tools_used) : r.tools_used[i] \in ToolNames
            /\ \A i, j \in 1..Len(r.tools_used) :
                    i < j => NameRank(r.tools_used[i]) < NameRank(r.tools_used[j])
            /\ {r.tools_used[i] : i \in 1..Len(r.tools_used)}
                    = {n \in ToolNames : Invocations(n) > 0}
            /\ Len(r.tools_count) = Len(r.tools_used)
            /\ \A i \in 1..Len(r.tools_count) :
                    r.tools_count[i] = Invocations(r.tools_used[i]) /\ r.tools_count[i] >= 1
            /\ SumSeq(r.tools_count) = Len(TraceOf({"execute"}))
            /\ \A other \in Reorderings(tools_used) :
                    /\ dedup_with_counts(other).names = r.tools_used
                    /\ dedup_with_counts(other).counts = r.tools_count

\* a run that invoked web_search, then no_such_tool, then web_search again and returned
C25_Witness ==
    /\ at = "returned" /\ outcome.kind = "Ok"
    /\ tools_used = <<"web_search", "no_such_tool", "web_search">>
    /\ outcome.result.tools_used = <<"no_such_tool", "web_search">>
    /\ outcome.result.tools_count = <<1, 2>>

C27_StatusMapping ==
    chat_ret.kind # "none" =>
        /\ (exchange.sent /\ exchange.status = 429) => chat_ret.kind = "RateLimited"
        /\ (exchange.sent /\ exchange.status \in {401, 403}) => chat_ret.kind = "AuthError"
        /\ (exchange.sent /\ exchange.status \in 200..299 /\ exchange.body # "choices")
                => chat_ret.kind = "ParseError"
        /\ (~exchange.sent \/ exchange.status \in {301, 400, 404, 500, 503})
                => chat_ret.kind = "RequestError"

\* the adapter calls the call followed has begun on entry p, given its log, its
\* position and its attempt in flight
AttemptsOn(p, l, at_pc, c) ==
    Cardinality({i \in 1..Len(l) : l[i].prov = p})
        + (IF at_pc = "await" /\ c.prov = p THEN 1 ELSE 0)

\* C28: a step of the call followed (its start, or the return of an adapter call) moves
\* the cursor of an entry by one, wrapping at the width, when it begins an adapter
\* call on that entry and leaves it alone otherwise, so that over a call each cursor
\* grows by the number of adapter calls begun on its entry; the step leaves the entries, their
\* key counts and the default index as they are. (The draws of other calls move the
\* cursors on their own account.)
C28_CursorPerAttempt ==
    [][(pc # "done" /\ <<pc, op, cur, log, result>>' # <<pc, op, cur, log, result>>) =>
         /\ \A p \in 1..Len(providers) :
                LET begun == AttemptsOn(p, log', pc', cur') - AttemptsOn(p, log, pc, cur)
                IN  /\ begun \in {0, 1}
                    /\ index'[p] = (index[p] + begun) % CursorMod
         /\ providers' = providers
         /\ default_idx' = default_idx
         /\ DOMAIN index' = DOMAIN index]_vars

\* a chat_with_provider call that made its fast-path call and then two calls of chat on
\* the entry named, and one on the other entry, with no other draw since the pool was made
C28_Witness ==
    /\ pc = "done" /\ op.kind = "chat_with_provider"
    /\ Len(providers) = 2
    /\ AttemptsOn(1, log, pc, cur) = 3
    /\ AttemptsOn(2, log, pc, cur) = 1
    /\ index = <<3, 1>>

\* C29: the default index of a pool with entries is the place of an entry, and so is
\* every place chat visits and calls; when no entry carries the configured default
\* name, the default is the first entry, which is the first of claude, gemini, groq,
\* mistral that has keys, and chat begins with it.
C29_DefaultFallsBackToFirst ==
    Len(providers) > 0 =>
        /\ default_idx \in 1..Len(providers)
        /\ \A i \in 1..Len(provider_order) : provider_order[i] \in 1..Len(providers)
        /\ pc = "await" => cur.prov \in 1..Len(providers)
        /\ \A i \in 1..Len(log) : log[i].prov \in 1..Len(providers)
        /\ (\A p \in 1..Len(providers) : providers[p].name # config.default_provider) =>
              /\ default_idx = 1
              /\ provider_order[1] = 1
              /\ \E b \in 1..4 :
                    /\ providers[1].name = <<"claude", "gemini", "groq", "mistral">>[b]
                    /\ config.keys[b] > 0
                    /\ \A c \in 1..(b - 1) : config.keys[c] = 0
              /\ (op.kind = "chat" /\ log # <<>>) => log[1].prov = 1

\* the default is mistral, which has no key; gemini and groq have: a chat called gemini
\* first, then groq
C29_Witness ==
    /\ config.default_provider = "mistral"
    /\ config.keys = <<0, 1, 1, 0>>
    /\ op.kind = "chat" /\ pc = "done"
    /\ Len(log) = 2
    /\ providers[log[1].prov].name = "gemini"
    /\ providers[log[2].prov].name = "groq"

\* C30: the cursor of a key rotator is always a value of its integer width; for every
\* such value and every number of keys n >= 1 the index computed is in 0..n-1; a
\* next_key call on a rotator with keys returns the key at that index of the value it
\* fetched and moves the cursor to the next value, from the maximum of the width to 0.
C30_NextKeyInRangeAfterWrap ==
    /\ [](/\ kp_index \in 0..(2 ^ CursorBits - 1)
          /\ \A c \in 0..(2 ^ CursorBits - 1), n \in 1..MaxKeys : c % n \in 0..(n - 1)
          /\ (kp_keys # <<>> /\ kp_ret.called) =>
                /\ kp_ret.ret.some
                /\ \E i \in 1..Len(kp_keys) : kp_ret.ret.key = kp_keys[i])
    /\ [][kp_keys # <<>> =>
             /\ kp_ret'.called /\ kp_ret'.ret.some
             /\ (kp_index % Len(kp_keys)) + 1 \in 1..Len(kp_keys)
             /\ kp_ret'.ret.key = kp_keys[(kp_index % Len(kp_keys)) + 1]
             /\ kp_index' = IF kp_index = 2 ^ CursorBits - 1 THEN 0 ELSE kp_index + 1]_vars

\* a rotator of three keys whose cursor has wrapped around: the call that fetched the
\* maximum returned the first key and left the cursor at 0
C30_Witness ==
    /\ Len(kp_keys) = 3
    /\ kp_ret.called
    /\ kp_index = 0
    /\ kp_ret.ret = [some |-> TRUE, key |-> kp_keys[1]]

\* the call followed is chat_with_provider with a name that no entry carries
UnmatchedCall ==
    /\ op.kind = "chat_with_provider"
    /\ \A p \in 1..Len(providers) : providers[p].name # op.name

\* C31: the step that starts chat_with_provider with a name that no entry carries is
\* the first step of chat: it draws the same key, begins the same adapter call or
\* returns the same error; such a call makes no fast-path call, so that each of its
\* later steps is a step of chat; it begins with the default entry, and its success
\* carries the name of the entry that answered, not the name asked for.
C31_UnknownNameIsChat ==
    /\ [][(pc = "idle" /\ op'.kind = "chat_with_provider"
            /\ \A p \in 1..Len(providers) : providers[p].name # op'.name) => EnterChat]_vars
    /\ [](UnmatchedCall =>
            /\ ~cur.fast
            /\ \A i \in 1..Len(log) : ~log[i].fast
            /\ log # <<>> => log[1].prov = default_idx
            /\ (pc = "await" /\ log = <<>>) => cur.prov = default_idx
            /\ (pc = "done" /\ result.kind = "Ok") =>
                    /\ result.provider = providers[log[Len(log)].prov].name
                    /\ result.provider # op.name
            /\ (pc = "done" /\ result.kind # "Ok") =>
                    result.kind = IF Len(providers) = 0 THEN "NoKeys" ELSE "RequestError")

\* chat_with_provider("other") on a pool of two entries: the default entry failed, the
\* second answered
C31_Witness ==
    /\ op = [kind |-> "chat_with_provider", name |-> "other"]
    /\ pc = "done" /\ result.kind = "Ok"
    /\ Len(providers) = 2
    /\ Len(log) = 2
    /\ log[1].prov = default_idx /\ log[2].prov # default_idx

\* the number of pool calls of the run that have returned Ok
Answers ==
    Len(ModelCalls) - (IF at = "model" THEN 1 ELSE 0) - (IF ReturnedError THEN 1 ELSE 0)

\* C32: the provider of the AgentResult of a run that returned successfully is the name
\* the pool returned with its last Ok, whatever provider was asked for, and is the
\* empty string exactly when no pool call of the run returned Ok; the name kept by the
\* run changes only in the step in which a pool call returns Ok.
C32_ProviderOfLastAnswer ==
    /\ []((at = "returned" /\ outcome.kind = "Ok") =>
            /\ outcome.result.provider = answered
            /\ Answers = 0 <=> outcome.result.provider = "")
    /\ [](/\ last_provider = answered
          /\ Answers = 0 <=> answered = ""
          /\ answered # "" => \E p \in 1..Len(providers) : providers[p].name = answered)
    /\ [][last_provider' # last_provider =>
             (at = "model" /\ at' # "model" /\ ~(at' = "returned" /\ outcome'.kind = "Err"))]_vars

\* a run pinned to gemini whose second pool call was answered by claude: its final
\* answer reports claude
C32_Witness ==
    /\ ReturnedFinal
    /\ turn = 1
    /\ preferred_provider = [some |-> TRUE, v |-> "gemini"]
    /\ answered = "claude"
    /\ outcome.result.provider = "claude"

\* the run was cancelled at the head of its first turn
CancelledAtStart == ReturnedCancelled /\ turn = 0

\* the Assistant messages of the history of the run
HistoryAssistants == {i \in 1..Len(history) : history[i].role = "Assistant"}

\* C33 as stated: a run cancelled at its start has made no call and no notification
\* and reports no turn, no tool and no provider; its response is the text of the last
\* Assistant message of the history followed by the notice, or the default notice if
\* the history has no Assistant message.
C33_CancelledAtStartAppends ==
    CancelledAtStart =>
        LET r == outcome.result
        IN  /\ trace = <<[ev |-> "load_cancel", turn |-> 0, id |-> "", name |-> ""]>>
            /\ progress = <<>>
            /\ r.turns = 0 /\ r.tools_used = <<>> /\ r.tools_count = <<>> /\ r.provider = ""
            /\ r.response = IF HistoryAssistants = {} THEN <<"Query da bi dung.">>
                             ELSE history[Max(HistoryAssistants)].text.v
                                      \o <<"\n\n_-- Query da bi dung._">>

\* C33 amended: a run that stands at its start with the cancel flag set and a turn to
\* make returns in its first step, successfully; it has made no model call, no tool
\* call and no notification, reports no turn, no tool and no provider, and its
\* response is the text of the last Assistant message of the history followed by the
\* notice, or the default notice alone if the history has no Assistant message or the
\* last one has an empty text.
C33_CancelledAtStart ==
    /\ [](CancelledAtStart =>
            LET r == outcome.result
                said == IF HistoryAssistants = {} THEN <<>>
                        ELSE history[Max(HistoryAssistants)].text.v
            IN  /\ trace = <<[ev |-> "load_cancel", turn |-> 0, id |-> "", name |-> ""]>>
                /\ progress = <<>>
                /\ Len(messages) = Len(history) + 2
                /\ r.turns = 0 /\ r.tools_used = <<>> /\ r.tools_count = <<>>
                /\ r.provider = ""
                /\ r.response = IF said = <<>> THEN <<"Query da bi dung.">>
                                 ELSE said \o <<"\n\n_-- Query da bi dung._">>)
    /\ [][(at = "turn" /\ turn = 0 /\ cancel_flag /\ max_turns >= 1) =>
             (at' = "returned" /\ outcome'.kind = "Ok" /\ turn' = 0
              /\ progress' = progress /\ messages' = messages)]_vars

\* cancelled at the start with a history whose first Assistant message has a text and
\* whose last has none: the default notice is returned
C33_Witness ==
    /\ CancelledAtStart
    /\ Len(history) = 2
    /\ history[1].role = "Assistant" /\ history[1].text.v = <<"h">>
    /\ history[2].role = "Assistant" /\ history[2].text.v = <<>>
    /\ outcome.result.response = <<"Query da bi dung.">>

\* C34: a run with max_turns = 0 returns in its first step, successfully, whatever the
\* cancel flag says: it has made no model call, has not read the flag, has notified
\* nothing and reports 0 turns; its response is the fixed message when the history
\* has no Assistant message, and the text of the last Assistant message of the
\* history otherwise. A run of max_turns >= 1 that has used up its turns has an
\* AssistantWithToolCalls message as its last Assistant message and returns its text:
\* the fixed message is not chosen.
C34_ZeroTurns ==
    /\ []((at = "returned" /\ max_turns = 0) =>
            LET r == outcome.result
            IN  /\ outcome.kind = "Ok"
                /\ trace = <<>>
                /\ progress = <<>>
                /\ Len(messages) = Len(history) + 2
                /\ r.turns = 0 /\ r.tools_used = <<>> /\ r.provider = ""
                /\ HistoryAssistants = {} =>
                       r.response = <<"Reached max processing limit. Please try again.">>
                /\ HistoryAssistants # {} =>
                       r.response = history[Max(HistoryAssistants)].text.v)
    /\ []((ReturnedMaxTurns /\ max_turns >= 1) =>
            LET r == outcome.result
                assistants == {i \in 1..Len(messages) : messages[i].role = "Assistant"}
            IN  /\ CallPositions # {}
                /\ Max(assistants) = Max(CallPositions)
                /\ Max(CallPositions) > Len(history) + 2
                /\ r.turns = max_turns
                /\ r.response = IF messages[Max(CallPositions)].text.some
                                 THEN messages[Max(CallPositions)].text.v
                                 ELSE <<>>)
    /\ [][(at = "turn" /\ max_turns = 0 /\ cancel_flag' = cancel_flag) =>
             (at' = "returned" /\ outcome'.kind = "Ok" /\ trace' = trace)]_vars

\* no turn allowed, the cancel flag set, and a history whose last Assistant message
\* says "h": the run returns "h", without the cancellation notice
C34_Witness ==
    /\ at = "returned"
    /\ max_turns = 0
    /\ cancel_flag
    /\ HistoryAssistants # {}
    /\ history[Max(HistoryAssistants)].text.v = <<"h">>
    /\ outcome.result.response = <<"h">>
    /\ trace = <<>>

\* C35: the reads of the cancel flag are one per turn begun, in the order of the
\* turns, each the first event of its turn and right before the Thinking notification
\* of the turn if there is one; a run returns as cancelled only from the head of a turn
\* it may still make. A run that comes to the head of the loop with no turn left and
\* the flag set returns in its next step without reading the flag, and a run of
\* max_turns >= 1 that has returned so has read the flag max_turns times, reports
\* max_turns turns and answers with the text of its last AssistantWithToolCalls
\* message, without cancellation notice.
C35_FlagReadOncePerTurn ==
    /\ [](LET loads == TraceOf({"load_cancel"})
          IN  /\ \A i \in 1..Len(loads) : loads[i].turn = i - 1
              /\ Len(loads) = IF at = "turn" \/ ReturnedMaxTurns THEN turn ELSE turn + 1
              /\ \A n \in 1..Len(trace) :
                    /\ n > 1 => trace[n - 1].turn <= trace[n].turn
                    /\ (n > 1 /\ trace[n].ev = "load_cancel") =>
                            trace[n - 1].turn < trace[n].turn
                    /\ trace[n].ev = "thinking" =>
                            /\ n > 1 /\ trace[n - 1].ev = "load_cancel"
                            /\ trace[n - 1].turn = trace[n].turn
              /\ (ReturnedMaxTurns /\ max_turns >= 1) =>
                    LET r == outcome.result
                    IN  /\ Len(loads) = max_turns
                        /\ r.turns = max_turns
                        /\ r.response = IF messages[Max(CallPositions)].text.some
                                         THEN messages[Max(CallPositions)].text.v
                                         ELSE <<>>
                        /\ \A i \in 1..Len(r.response) :
                              r.response[i] \notin {"Query da bi dung.",
                                                     "\n\n_-- Query da bi dung._"})
    /\ [][/\ (at = "turn" /\ turn >= max_turns /\ cancel_flag) =>
                (at' = "returned" /\ outcome'.kind = "Ok" /\ trace' = trace
                 /\ outcome'.result.turns = max_turns)
          /\ (at # "returned" /\ at' = "returned" /\ trace' # <<>>
               /\ trace'[Len(trace')].ev = "load_cancel") =>
                (at = "turn" /\ turn < max_turns /\ cancel_flag)
      ]_vars

\* the flag was set after the read of the last of two turns, which saw it unset and
\* called the model: the run has used up its turns and answers "t1"
C35_Witness ==
    /\ ReturnedMaxTurns
    /\ max_turns = 2
    /\ cancel_flag
    /\ Len(TraceOf({"load_cancel"})) = 2
    /\ Len(TraceOf({"model_call"})) = 2
    /\ outcome.result.turns = 2
    /\ outcome.result.response = <<"t1">>

\* the contents of the polls whose capture succeeded, after strip_ansi
CleanPolls ==
    LET good == SelectSeq(polls, LAMBDA got : got.ok)
    IN  [i \in 1..Len(good) |-> strip_ansi(good[i].v)]

\* the last poll captured a content that looks like a prompt, and the two captures
\* before it showed the same content
Settled ==
    /\ polls # <<>>
    /\ polls[Len(polls)].ok
    /\ LET n == Len(CleanPolls)
       IN  /\ n >= 3
           /\ CleanPolls[n - 1] = CleanPolls[n]
           /\ CleanPolls[n - 2] = CleanPolls[n]
           /\ looks_like_prompt(CleanPolls[n])

\* the call has returned a result that ends with the timeout mark
TimedOut ==
    /\ wait_at = "returned"
    /\ Len(wait_ret) >= 5
    /\ SubSeq(wait_ret, Len(wait_ret) - 4, Len(wait_ret)) =
          <<"\n", "\n", "[TIMEOUT after ">> \o to_string(timeout_secs)
              \o <<"s -- output may be incomplete]">>

\* C36: every call of wait_for_completion returns. While it polls, no poll has yet
\* captured a prompt-like content seen unchanged by two polls after the one that first
\* showed it; a result without timeout mark is returned by such a poll and is the
\* stripped new output of its capture; a result with the mark is returned only after
\* the elapsed time has exceeded the timeout, and a call whose captures all failed
\* returns the mark alone. An iteration that begins after the timeout is exceeded
\* returns the marked result without polling.
C36_WaitReturns ==
    /\ <>(wait_at = "returned")
    /\ [](wait_at = "loop" => ~Settled)
    /\ []((wait_at = "returned" /\ ~TimedOut) =>
            /\ Settled
            /\ wait_ret = strip_ansi(extract_response(baseline, polls[Len(polls)].v)))
    /\ [](TimedOut =>
            /\ elapsed > timeout_secs * 2
            /\ ~Settled
            /\ (\A i \in 1..Len(polls) : ~polls[i].ok) =>
                  \/ wait_ret = TimeoutMark(timeout_secs)
                  \/ \E c \in Panes :
                        wait_ret = strip_ansi(extract_response(baseline, c))
                                      \o TimeoutMark(timeout_secs))
    /\ [][(wait_at = "loop" /\ elapsed > timeout_secs * 2) =>
             (TimedOut' /\ polls' = polls)]_vars
    /\ [][(wait_at = "loop" /\ ~(elapsed > timeout_secs * 2)) =>
             Len(polls') = Len(polls) + 1]_vars

\* a failed capture, then the plain, the coloured and the plain prompt in turn: the
\* fourth poll returns the answer and the prompt
C36_Witness ==
    /\ wait_at = "returned"
    /\ ~TimedOut
    /\ baseline = <<">">>
    /\ Len(polls) = 4
    /\ ~polls[1].ok
    /\ polls[2] = [ok |-> TRUE, v |-> <<">", "\n", "a", "\n", ">", " ", "\n">>]
    /\ polls[3].v # polls[2].v
    /\ polls[4] = polls[2]
    /\ wait_ret = <<"a", "\n", ">", " ">>

\* C37 as stated: every call of split_message with max_len >= 1 returns, the chunks
\* it returns are non-empty and at most max_len bytes long, and a text of at most
\* max_len bytes is returned as one chunk, unchanged.
C37_SplitTerminates ==
    /\ <>(split_pc = "returned")
    /\ [](split_pc = "returned" =>
            /\ \A i \in 1..Len(chunks) : chunks[i] # <<>> /\ len(chunks[i]) <= max_len
            /\ len(split_text) <= max_len => chunks = <<split_text>>)

\* the update handle_message was last called with
LastUpdate == handled[Len(handled)]

\* C38: while the list of allowed users is non-empty, the handling of an update whose
\* sender is not on it (0 standing in for a missing sender) starts no agent run, runs no
\* command and leaves the stored messages alone; at most it sends "Unauthorized.".
\* With that, every stored row belongs to a listed user and "Unauthorized." is never
\* sent while the list is empty; with an empty list a plain text of any sender whose
\* progress message can be sent starts a run and stores the text for that sender.
C38_UnauthorizedOnlyReplies ==
    /\ [][(handled' # handled /\ allowed_users # <<>>
           /\ \A i \in 1..Len(allowed_users) :
                 allowed_users[i] # (IF handled'[Len(handled')].from.some
                                     THEN handled'[Len(handled')].from.v ELSE 0)) =>
             /\ agent_runs' = agent_runs
             /\ commands' = commands
             /\ db' = db
             /\ sent' \in {sent, Append(sent, "Unauthorized.")}]_vars
    /\ [](allowed_users # <<>> =>
            \A r \in 1..Len(db) : \E i \in 1..Len(allowed_users) :
                allowed_users[i] = db[r].user)
    /\ [](allowed_users = <<>> => \A n \in 1..Len(sent) : sent[n] # "Unauthorized.")
    /\ [][(handled' # handled /\ allowed_users = <<>>
           /\ handled'[Len(handled')].text = [some |-> TRUE, v |-> <<"hello">>]
           /\ sent' # sent) =>
             /\ agent_runs' = agent_runs + 1
             /\ Len(db') > Len(db)
             /\ db'[Len(db) + 1] =
                   [user |-> IF handled'[Len(handled')].from.some
                             THEN handled'[Len(handled')].from.v ELSE 0,
                    role |-> "user", content |-> <<"hello">>]]_vars

\* users 1 and 2 are listed: user 1 has had an answer, then user 3 and an update
\* without sender were turned away, each with the one reply
C38_Witness ==
    /\ allowed_users = <<1, 2>>
    /\ Len(handled) = 3
    /\ handled[1].from = [some |-> TRUE, v |-> 1]
    /\ handled[2].from = [some |-> TRUE, v |-> 3]
    /\ handled[2].text = [some |-> TRUE, v |-> <<"hello">>]
    /\ handled[3].from = [some |-> FALSE, v |-> 0]
    /\ handled[3].text = [some |-> TRUE, v |-> <<"/new">>]
    /\ agent_runs = 1
    /\ commands = 0
    /\ Len(db) = 2
    /\ sent = <<"progress", "response", "Unauthorized.", "Unauthorized.">>

====
